---- MODULE Spec2Model ----
(***************************************************************************)
(* mmap_lib::map (mmap_map.hpp): a Robin-Hood open-addressing hash map     *)
(* whose header, info bytes and key/value slots live in one memory-mapped  *)
(* region backed by a file.  The model is the instantiation                *)
(*   mmap_lib::map<uint32_t, uint32_t>   (default hasher, load factor 80)  *)
(* and, in SpecGrow, also the instantiations with a hasher that returns    *)
(* one value for every key, of one file-backed instance, built with a      *)
(* compiler that converts                                                  *)
(* size_t to int modulo 2^32 and shifts negative ints arithmetically       *)
(* (gcc and clang, which the __builtin_ and __attribute__ uses require).   *)
(*                                                                         *)
(* Memory is modelled sparsely: `info` holds the non-zero info bytes and   *)
(* `kv` the slots whose info byte is non-zero; every other byte of the     *)
(* region is zero or is never read.                                        *)
(***************************************************************************)
EXTENDS Integers, Sequences, FiniteSets, TLC

\* ------------------------------------------------------------------------
\* Program constants
\* ------------------------------------------------------------------------
InitialNumElements == 1024
InitialInfoNumBits == 5
InitialInfoInc == 2 ^ InitialInfoNumBits
SizeofInt == 4
InitialInfoHashShift == SizeofInt * 8 - InitialInfoNumBits
MaxLoadFactor100 == 80
SizeofNode == 8
SizeofU64 == 8

\* ------------------------------------------------------------------------
\* Bounds of the model
\* ------------------------------------------------------------------------
\* rehash is not followed beyond this slot count
MaxBuckets == 2048
\* no entry is added once the table holds this many entries more than
\* there are keys set and not erased
MaxExtra == 1
\* the threads calling into the map
Threads == {"T1", "T2"}
MainThread == "T1"
\* the threads that take iterators
IterThreads == {"T1"}
\* the values the callers store
Vals == {1, 2}
\* no iterator is made once ref_locked has this value
MaxLocks == 3
\* the keys 1 .. MaxSameKeys are set under a hasher that returns one value,
\* the keys 1 .. MaxFillKeys under the default hasher
MaxSameKeys == 128
MaxFillKeys == 821

\* keys the callers use; both have home bucket 1023 (the last slot) in a
\* table of 1024 slots; the top five bits of their hashes are 14 and -3
FreeKeys == {2796, 725}
\* keys an earlier run of the program stored in the file, in the order it
\* set them; all have home bucket 1023 in a table of 1024 slots and top
\* hash bits 2, 11, 8, 5, 2, 14
Fillers == <<4142, 6834, 7559, 11597, 12322, 10976>>

\* nullptr
NULL == 0
\* what get returns for an absent key: findIdx gives -1 and the read of
\* mKeyVals[-1].getSecond() is a read of the four bytes before the slot
\* array, the zero padding that follows the sentinel info byte
None == 0

\* ------------------------------------------------------------------------
\* Hasher: hash<uint32_t>
\* ------------------------------------------------------------------------
\* little-endian bytes of UINT64_C(0xca4bcaa75ec3f625)
HashMultiplier == <<37, 246, 195, 94, 167, 202, 75, 202>>

\* bytes i..8 of (HashMultiplier * h) mod 2^64, schoolbook with carry
RECURSIVE MulBytes(_, _, _)
MulBytes(h, i, carry) ==
  IF i > 8 THEN <<>>
  ELSE LET acc == HashMultiplier[i] * h + carry
       IN  <<acc % 256>> \o MulBytes(h, i + 1, acc \div 256)

\* bytes 5..8 of the product b, read as a two's complement int
HighWordToInt(b) ==
  b[5] + 256 * b[6] + 65536 * b[7] + 16777216 * (IF b[8] >= 128 THEN b[8] - 256 ELSE b[8])

\* (0xca4bcaa75ec3f625 * h) >> 32, then the conversion of that size_t to the
\* `int idx` of keyToIdx (modulo 2^32, two's complement)
HashToInt(h) == HighWordToInt(MulBytes(h, 1, 0))

\* bad_hash_prevention is 1 when the hasher is mmap_lib::hash<key_type>
BadHashPrevention == 1

\* the Hash template argument of the instance: mmap_lib::hash<uint32_t>, or
\* (same = TRUE) a hasher whose operator() returns `value` for every key
VARIABLE hasher

DefaultHasher == [same |-> FALSE, value |-> 0]

\* little-endian bytes of UINT64_C(0xb3727c1f779b8d8b), bad_hash_prevention
\* for any other hasher
BadHashPreventionOther == <<139, 141, 155, 119, 31, 124, 114, 179>>

\* bytes i..8 of (m * h) mod 2^64, schoolbook with carry
RECURSIVE MulBytesBy(_, _, _, _)
MulBytesBy(m, h, i, carry) ==
  IF i > 8 THEN <<>>
  ELSE <<(m[i] * h + carry) % 256>> \o MulBytesBy(m, h, i + 1, (m[i] * h + carry) \div 256)

\* bytes 1..4 of the product b, read as a two's complement int
LowWordToInt(b) ==
  b[1] + 256 * b[2] + 65536 * b[3] + 16777216 * (IF b[4] >= 128 THEN b[4] - 256 ELSE b[4])

\* Hash::operator()(key) * bad_hash_prevention stored into `int idx`
\* the values returned by the hashers that return one value for every key
SameHashes == {0, 31, 57}

HashedIdx(key) ==
  IF hasher.same THEN LowWordToInt(MulBytesBy(BadHashPreventionOther, hasher.value, 1, 0))
  ELSE HashToInt(key) * BadHashPrevention

\* x >> s on a (possibly negative) int: arithmetic shift (s <= 31; the
\* division is made in two steps to keep the divisor below 2^31)
ShiftRight(x, s) == IF s = 0 THEN x ELSE (x \div (2 ^ (s - 1))) \div 2

\* ------------------------------------------------------------------------
\* Region contents.  A table T is a record
\*   size, mask, numElements, maxNumElementsAllowed, infoInc, infoHashShift,
\*   info (index -> non-zero byte), kv (index -> <<key, value>>),
\*   wide (history: a value above 0xFF was cast to uint8_t and stored in info)
\* ------------------------------------------------------------------------
EmptyFn == [i \in {} |-> 0]

InfoAt(T, i) == IF i \in DOMAIN T.info THEN T.info[i] ELSE 0

\* store byte b (already cast to uint8_t) at info index i
PutInfo(info, i, b) ==
  IF b = 0 THEN [j \in (DOMAIN info) \ {i} |-> info[j]]
  ELSE [j \in (DOMAIN info) \cup {i} |-> IF j = i THEN b ELSE info[j]]

PutKv(kv, i, n) == [j \in (DOMAIN kv) \cup {i} |-> IF j = i THEN n ELSE kv[j]]

\* slots whose info byte is zero are never read: forget their bytes
DropDead(T) ==
  [T EXCEPT !.kv = [j \in (DOMAIN T.kv) \cap (DOMAIN T.info) |-> T.kv[j]]]

ToU8(x) == x % 256

calcNumBytesInfo(numElements) == (numElements + 1) + SizeofU64
calcNumBytesNode(numElements) == SizeofNode * numElements
calcNumBytesTotal(numElements) == calcNumBytesInfo(numElements) + calcNumBytesNode(numElements)
calc_mmap_size(nelems) == (3 + 2) * SizeofU64 + calcNumBytesTotal(nelems)

\* variant: the load factor applied the wrong way round
calcMaxNumElementsAllowed_inverted(maxElements) == (maxElements * 100) \div MaxLoadFactor100

calcMaxNumElementsAllowed(maxElements) == (maxElements * MaxLoadFactor100) \div 100

\* the last two statements of keyToIdx on idx = the hash as an int:
\* info = *mInfoInc + (idx >> *mInfoHashShift); idx &= *mMask
IdxToInfo(T, idx) ==
  [idx |-> idx % (T.mask + 1),
   info |-> T.infoInc + ShiftRight(idx, T.infoHashShift)]

keyToIdx(T, key) == IdxToInfo(T, HashedIdx(key))

next_idx(T, idx) == (idx + 1) % (T.mask + 1)
next_info(T, info) == info + T.infoInc
Step(T, p) == [idx |-> next_idx(T, p.idx), info |-> next_info(T, p.info)]

\* variant: the probe also skips the entries whose info equals the key's
RECURSIVE nextWhileLess_le(_, _)
nextWhileLess_le(T, p) ==
  IF p.info <= InfoAt(T, p.idx) THEN nextWhileLess_le(T, Step(T, p)) ELSE p

RECURSIVE nextWhileLess(_, _)
nextWhileLess(T, p) ==
  IF p.info < InfoAt(T, p.idx) THEN nextWhileLess(T, Step(T, p)) ELSE p

\* p after d steps of idx = next_idx(idx); info = next_info(info)
Steps(T, p, d) == [idx |-> (p.idx + d) % (T.mask + 1), info |-> p.info + d * T.infoInc]

\* if (info == mInfo[idx] && equals(key, mKeyVals[idx].getFirst())) at q
findIdxHit(T, key, q) == q.info = InfoAt(T, q.idx) /\ T.kv[q.idx][1] = key

\* pass j of the do-while loop of findIdx (j = 0 for the first) returns, or
\* the loop condition fails after it
findIdxEnds(T, key, p, j) ==
  \/ findIdxHit(T, key, Steps(T, p, 2 * j))
  \/ findIdxHit(T, key, Steps(T, p, 2 * j + 1))
  \/ Steps(T, p, 2 * j + 2).info > InfoAt(T, Steps(T, p, 2 * j + 2).idx)

\* what findIdx returns when the loop ends with pass j
findIdxAt(T, key, p, j) ==
  IF findIdxHit(T, key, Steps(T, p, 2 * j)) THEN Steps(T, p, 2 * j).idx
  ELSE IF findIdxHit(T, key, Steps(T, p, 2 * j + 1)) THEN Steps(T, p, 2 * j + 1).idx
  ELSE -1

\* do { check; step; check; step } while (info <= mInfo[idx]) of findIdx,
\* on a mapped table; -1 when nothing is found.  The loop makes the least
\* number of passes after which it ends
findIdxLoop(T, key, p) ==
  findIdxAt(T, key, p, CHOOSE j \in 0 .. T.mask + 1 :
                         /\ findIdxEnds(T, key, p, j)
                         /\ \A i \in 0 .. j - 1 : ~findIdxEnds(T, key, p, i))

findIdxT(T, key) == findIdxLoop(T, key, keyToIdx(T, key))

\* variant: the moved entry keeps its info byte (infoInc is not added)
RECURSIVE shiftUp_flat(_, _, _)
shiftUp_flat(T, idx, insertion_idx) ==
  IF idx = insertion_idx THEN T
  ELSE shiftUp_flat([T EXCEPT !.kv = PutKv(@, idx, T.kv[(idx - 1) % (T.mask + 1)]),
                              !.info = PutInfo(@, idx, InfoAt(T, (idx - 1) % (T.mask + 1)))],
                    (idx - 1) % (T.mask + 1), insertion_idx)

\* while (idx != insertion_idx) of shiftUp; the flag is the write of 0 to
\* *mMaxNumElementsAllowed
RECURSIVE shiftUp(_, _, _)
shiftUp(T, idx, insertion_idx) ==
  IF idx = insertion_idx THEN T
  ELSE LET prev_idx == (idx - 1) % (T.mask + 1)
           b == ToU8(InfoAt(T, prev_idx) + T.infoInc)
           T1 == [T EXCEPT !.kv = PutKv(@, idx, T.kv[prev_idx]),
                           !.info = PutInfo(@, idx, b),
                           !.wide = @ \/ InfoAt(T, prev_idx) + T.infoInc > 255]
           T2 == IF b + T.infoInc > 255
                 THEN [T1 EXCEPT !.maxNumElementsAllowed = 0] ELSE T1
       IN  shiftUp(T2, prev_idx, insertion_idx)

\* while (mInfo[idx + 1] >= 2 * *mInfoInc) of shiftDown, then mInfo[idx] = 0
RECURSIVE shiftDown(_, _)
shiftDown(T, idx) ==
  IF InfoAt(T, idx + 1) >= 2 * T.infoInc
  THEN shiftDown([T EXCEPT !.info = PutInfo(@, idx, ToU8(InfoAt(T, idx + 1) - T.infoInc)),
                          !.kv = PutKv(@, idx, T.kv[idx + 1])],
                 idx + 1)
  ELSE DropDead([T EXCEPT !.info = PutInfo(@, idx, 0)])

\* while (0 != mInfo[idx]) idx = next_idx(idx)
RECURSIVE findEmpty(_, _)
findEmpty(T, idx) ==
  IF InfoAt(T, idx) # 0 THEN findEmpty(T, next_idx(T, idx)) ELSE idx

\* variant: the info bytes are left as they are
ShiftInfoBytes_none(T) == T.info

\* variant: the shift runs over every info byte, the sentinel included
ShiftInfoBytes_all(T) ==
  [j \in {i \in DOMAIN T.info : T.info[i] \div 2 # 0} |-> (T.info[j] \div 2) % 128]

\* the qword loop of try_increase_info covers the info bytes below
\* 8 * ((mask + 1) / 8); each byte becomes (b >> 1) & 0x7f
ShiftInfoBytes(T) ==
  LET covered == 8 * ((T.mask + 1) \div 8)
      keep == {j \in DOMAIN T.info : j >= covered \/ T.info[j] \div 2 # 0}
  IN  [j \in keep |-> IF j < covered THEN (T.info[j] \div 2) % 128 ELSE T.info[j]]

\* variant: the info bytes are never shifted
try_increase_info_never(T) == [ok |-> FALSE, T |-> T]

\* result: <<ok, table>>
try_increase_info(T) ==
  IF T.infoInc <= 2 THEN [ok |-> FALSE, T |-> T]
  ELSE [ok |-> TRUE,
        T |-> DropDead([T EXCEPT !.infoInc = ToU8(T.infoInc \div 2),
                                 !.infoHashShift = @ + 1,
                                 !.info = ShiftInfoBytes(T),
                                 !.maxNumElementsAllowed = calcMaxNumElementsAllowed(T.mask + 1)])]

\* while (info <= mInfo[idx]) of insert_move
RECURSIVE skipWhileLessEq(_, _)
skipWhileLessEq(T, p) ==
  IF p.info <= InfoAt(T, p.idx) THEN skipWhileLessEq(T, Step(T, p)) ELSE p

\* the body of insert_move after its overflow check: find the insertion
\* point, make room, place the node
insert_move_place(T, keyval) ==
  LET p == skipWhileLessEq(T, keyToIdx(T, keyval[1]))
      insertion_idx == p.idx
      insertion_info == ToU8(p.info)
      T1 == IF insertion_info + T.infoInc > 255
            THEN [T EXCEPT !.maxNumElementsAllowed = 0] ELSE T
      e == findEmpty(T1, insertion_idx)
      T2 == shiftUp(T1, e, insertion_idx)
  IN  DropDead([T2 EXCEPT !.kv = PutKv(@, insertion_idx, keyval),
                          !.info = PutInfo(@, insertion_idx, insertion_info),
                          !.wide = @ \/ p.info > 255,
                          !.numElements = @ + 1])

\* insert_move of one node into the mapped table (assert(ok) compiled out)
insert_move(T0, keyval) ==
  IF T0.maxNumElementsAllowed = 0
  THEN insert_move_place(try_increase_info(T0).T, keyval)
  ELSE insert_move_place(T0, keyval)

\* ------------------------------------------------------------------------
\* mmap_gc (collaborator) and the files.  The machine M is a record of the
\* instance's members, the mapped region, and the file <path>/<name>.
\* ------------------------------------------------------------------------
ZeroTable(sz) ==
  [size |-> sz, mask |-> 0, numElements |-> 0, maxNumElementsAllowed |-> 0,
   infoInc |-> 0, infoHashShift |-> 0, info |-> EmptyFn, kv |-> EmptyFn, wide |-> FALSE]

Max(a, b) == IF a >= b THEN a ELSE b

\* a store to the shared mapping is a store to the file it maps
WriteRegion(M, T) ==
  [M EXCEPT !.region = T, !.disk = IF M.mmap_fd >= 0 THEN T ELSE @]

\* mmap_gc::open: opens <path>/<name>, creating it (length 0) when absent
gc_open(M) ==
  [M EXCEPT !.mmap_fd = 3,
            !.file_exists = TRUE,
            !.disk = IF M.file_exists THEN @ ELSE ZeroTable(0)]

\* the addresses mmap_gc::mmap hands out
Bases == {1, 2}

\* mmap_gc::mmap: the file is extended to `size` and mapped at a base that
\* no live mapping has; gc_live is the base of the other live mapping (the
\* old region during rehash) or NULL
gc_mmap(M, size) ==
  LET base == IF M.gc_live = 1 THEN 2 ELSE 1
      T == [M.disk EXCEPT !.size = Max(@, size)]
  IN  [M EXCEPT !.region = T, !.disk = T, !.mmap_base = base, !.mmap_size = size]

\* mmap_gc::delete_file: the file of the mapping is closed and unlinked
gc_delete_file(M) == [M EXCEPT !.file_exists = FALSE, !.disk = ZeroTable(0)]

unlink(M) == [M EXCEPT !.file_exists = FALSE, !.disk = ZeroTable(0)]

\* ------------------------------------------------------------------------
\* Header access through mMask / mNumElements / mMaxNumElementsAllowed
\* ------------------------------------------------------------------------
HdrMask(M) == IF M.mHdr = "local" THEN M.local_mMask ELSE M.region.mask
HdrNumElements(M) == IF M.mHdr = "local" THEN M.local_mNumElements ELSE M.region.numElements
HdrMaxNumElementsAllowed(M) ==
  IF M.mHdr = "local" THEN M.local_mMaxNumElementsAllowed ELSE M.region.maxNumElementsAllowed

size(M) == HdrNumElements(M)
empty(M) == 0 = HdrNumElements(M)

\* variant: the file is unlinked whether or not the map is empty
gc_done_unlinks(M, base) ==
  IF M.mmap_base # base THEN [ret |-> FALSE, m |-> M]
  ELSE IF M.in_use_mutex THEN [ret |-> FALSE, m |-> M]
  ELSE LET M1 == [M EXCEPT !.in_use_mutex = TRUE]
           M2 == [unlink(M1) EXCEPT !.mmap_size = 0]
           M3 == [M2 EXCEPT !.local_mMask = M1.region.mask,
                            !.local_mNumElements = M1.region.numElements,
                            !.local_mMaxNumElementsAllowed = M1.region.maxNumElementsAllowed,
                            !.mHdr = "local",
                            !.mmap_base = NULL,
                            !.mmap_fd = -1,
                            !.in_use_mutex = FALSE]
       IN  [ret |-> TRUE, m |-> M3]

\* variant: the callback goes ahead although the mutex is held
gc_done_steals(M, base) ==
  IF M.mmap_base # base THEN [ret |-> FALSE, m |-> M]
  ELSE [ret |-> TRUE,
        m |-> [M EXCEPT !.local_mMask = M.region.mask,
                        !.local_mNumElements = M.region.numElements,
                        !.local_mMaxNumElementsAllowed = M.region.maxNumElementsAllowed,
                        !.mHdr = "local",
                        !.mmap_base = NULL,
                        !.mmap_fd = -1,
                        !.in_use_mutex = FALSE]]

\* variant: the header is not copied into the local_* members
gc_done_forgets(M, base) ==
  IF M.mmap_base # base THEN [ret |-> FALSE, m |-> M]
  ELSE IF M.in_use_mutex THEN [ret |-> FALSE, m |-> M]
  ELSE [ret |-> TRUE,
        m |-> [M EXCEPT !.mHdr = "local",
                        !.mmap_base = NULL,
                        !.mmap_fd = -1,
                        !.in_use_mutex = FALSE]]

\* variant: mMask, mNumElements and mMaxNumElementsAllowed keep pointing into
\* the mapping
gc_done_dangles(M, base) ==
  IF M.mmap_base # base THEN [ret |-> FALSE, m |-> M]
  ELSE IF M.in_use_mutex THEN [ret |-> FALSE, m |-> M]
  ELSE [ret |-> TRUE,
        m |-> [M EXCEPT !.local_mMask = M.region.mask,
                        !.local_mNumElements = M.region.numElements,
                        !.local_mMaxNumElementsAllowed = M.region.maxNumElementsAllowed,
                        !.mmap_base = NULL,
                        !.mmap_fd = -1,
                        !.in_use_mutex = FALSE]]

\* gc_done(base, force_recycle): <<returned value, machine>>
gc_done(M, base) ==
  IF M.mmap_base # base THEN [ret |-> FALSE, m |-> M]
  ELSE IF M.in_use_mutex THEN [ret |-> FALSE, m |-> M]
  ELSE LET M1 == [M EXCEPT !.in_use_mutex = TRUE]
           M2 == IF M1.mmap_fd >= 0
                 THEN (IF empty(M1) THEN [unlink(M1) EXCEPT !.mmap_size = 0] ELSE M1)
                 ELSE [M1 EXCEPT !.mmap_size = 0]
           M3 == [M2 EXCEPT !.local_mMask = M1.region.mask,
                            !.local_mNumElements = M1.region.numElements,
                            !.local_mMaxNumElementsAllowed = M1.region.maxNumElementsAllowed,
                            !.mHdr = "local",
                            !.mmap_base = NULL,
                            !.mmap_fd = -1,
                            !.in_use_mutex = FALSE]
       IN  [ret |-> TRUE, m |-> M3]

\* mmap_gc::recycle(base) of the instance's current mapping: the callback
\* runs synchronously and the region is unmapped
gc_unmap(r) == IF r.ret THEN [r.m EXCEPT !.region = ZeroTable(0)] ELSE r.m

gc_recycle(M, base) == gc_unmap(gc_done(M, base))

\* setup_mmap after setup_pointers: if (*mNumElements == 0) the header and
\* the sentinel are written
setup_mmap_header(M3, n_entries) ==
  IF M3.region.numElements # 0 THEN M3
  ELSE WriteRegion(M3,
         DropDead([M3.region EXCEPT
            !.maxNumElementsAllowed = calcMaxNumElementsAllowed(n_entries),
            !.mask = n_entries - 1,
            !.info = PutInfo(@, n_entries, 1),
            !.infoInc = InitialInfoInc,
            !.infoHashShift = InitialInfoHashShift]))

\* setup_mmap once n_entries is known: mmap_size, mmap_gc::mmap, setup_pointers
setup_mmap_map(M1, n_entries0, n_entries) ==
  setup_mmap_header(
    [gc_mmap(M1, IF n_entries0 # 0 \/ M1.mmap_size = 0 THEN calc_mmap_size(n_entries)
                 ELSE M1.mmap_size)
       EXCEPT !.mHdr = "mmap", !.mInc = "mmap"],
    n_entries)

\* variant: a reload that keeps the remembered mapping size takes half of
\* InitialNumElements for n_entries
setup_mmap_opened_half(M1, n_entries0) ==
  setup_mmap_map(M1, n_entries0,
    IF n_entries0 # 0 THEN n_entries0
    ELSE IF M1.mmap_size = 0
         THEN (IF M1.disk.size < 8 THEN InitialNumElements
               ELSE IF M1.disk.mask = 0 THEN InitialNumElements
               ELSE M1.disk.mask + 1)
         ELSE InitialNumElements \div 2)

\* setup_mmap once the file is open: n_entries is the argument, or is read
\* from the file's header when the file is long enough to hold one
setup_mmap_opened(M1, n_entries0) ==
  setup_mmap_map(M1, n_entries0,
    IF n_entries0 # 0 THEN n_entries0
    ELSE IF M1.mmap_size = 0
         THEN (IF M1.disk.size < 8 THEN InitialNumElements
               ELSE IF M1.disk.mask = 0 THEN InitialNumElements
               ELSE M1.disk.mask + 1)
         ELSE InitialNumElements)

setup_mmap(M, n_entries0) ==
  setup_mmap_opened(IF M.mmap_fd < 0 THEN gc_open(M) ELSE M, n_entries0)

reload(M) == IF M.mmap_base = NULL THEN setup_mmap(M, 0) ELSE M

\* findIdx on the reloaded machine: <<returned index, machine>>
findIdxLoaded(M1, key) == [ret |-> findIdxT(M1.region, key), m |-> M1]

\* variant: on an unmapped table findIdx answers -1 from the local header
findIdx_fallback(M, key) ==
  IF M.mmap_base = NULL THEN [ret |-> -1, m |-> M] ELSE findIdxLoaded(M, key)

findIdx(M, key) == findIdxLoaded(reload(M), key)

\* ------------------------------------------------------------------------
\* Growth
\* ------------------------------------------------------------------------
SetMin(S) == CHOOSE x \in S : \A y \in S : x <= y

RECURSIVE MoveAll(_, _, _, _)

\* variant: the loop stops half way
MoveRest_stops(L, old, mid, hi) == L

\* the loop over mid .. hi - 1 starts from the table L that the loop over the
\* indices below mid has completed
MoveRest(L, old, mid, hi) ==
  IF L.numElements >= 0 THEN MoveAll(L, old, mid, hi) ELSE L

\* for (i = 0; i < oldMaxElements; ++i) if (oldInfo[i] != 0) insert_move(...)
\* for the indices lo .. hi - 1 in increasing order (the range is halved so
\* that the evaluation does not nest once per index; a range without a
\* non-zero info byte moves nothing)
MoveAll(T, old, lo, hi) ==
  IF \A i \in DOMAIN old.info : i < lo \/ i >= hi \/ old.info[i] = 0 THEN T
  ELSE IF hi - lo = 1 THEN insert_move(T, old.kv[lo])
  ELSE MoveRest(MoveAll(T, old, lo, (lo + hi) \div 2), old, (lo + hi) \div 2, hi)

\* rehash: the old file is deleted and the members are reset; the old region
\* stays mapped at old_mmap_base
rehash_detach(M1) ==
  [(IF M1.mmap_fd >= 0 THEN [gc_delete_file(M1) EXCEPT !.mmap_fd = -1] ELSE M1)
     EXCEPT !.mmap_base = NULL,
            !.gc_live = M1.mmap_base,
            !.local_mMask = 0,
            !.local_mNumElements = 0,
            !.local_mMaxNumElementsAllowed = 0]

\* rehash: the move loop from the old region into the new mapping M4
rehash_move(M4, old, oldMaxElements) ==
  WriteRegion(M4, MoveAll(M4.region, old, 0, oldMaxElements))

\* rehash on the reloaded machine
rehash_loaded(M1, numBuckets) ==
  IF HdrMask(M1) + 1 >= numBuckets THEN M1
  ELSE IF numBuckets > MaxBuckets THEN [M1 EXCEPT !.over = TRUE]
  ELSE [gc_recycle(rehash_move(setup_mmap(rehash_detach(M1), numBuckets),
                               M1.region, HdrMask(M1) + 1),
                   M1.mmap_base)
          EXCEPT !.gc_live = NULL]

rehash(M, numBuckets) == rehash_loaded(reload(M), numBuckets)

\* assert(*mNumElements * 2 >= calcMaxNumElementsAllowed(*mMask + 1)) fails:
\* the call ends there
increase_size_asserts(M) ==
  IF HdrNumElements(M) * 2 >= calcMaxNumElementsAllowed(HdrMask(M) + 1)
  THEN rehash(M, (HdrMask(M) + 1) * 2)
  ELSE [M EXCEPT !.asserted = TRUE]

increase_size(M) ==
  IF HdrMask(M) = 0 THEN reload(M)
  ELSE LET r == try_increase_info(M.region)
       IN  IF HdrNumElements(M) < calcMaxNumElementsAllowed(HdrMask(M) + 1) /\ r.ok
           THEN WriteRegion(M, r.T)
           ELSE increase_size_asserts(M)

\* ------------------------------------------------------------------------
\* Lock
\* ------------------------------------------------------------------------
\* if (!ref_locked) while (exchange(in_use_mutex, true)) ;  -- the spin ends
\* only when the mutex was free
CanEnter(M) == M.ref_locked # 0 \/ ~M.in_use_mutex
EnterOp(M) == IF M.ref_locked = 0 THEN [M EXCEPT !.in_use_mutex = TRUE] ELSE M
\* variant: the mutex is released whatever ref_locked is
ExitOp_always(M) == [M EXCEPT !.in_use_mutex = FALSE]

\* if (!ref_locked) in_use_mutex.store(false)
ExitOp(M) == IF M.ref_locked = 0 THEN [M EXCEPT !.in_use_mutex = FALSE] ELSE M

ref_lock(M) ==
  [(IF M.ref_locked = 0 THEN [M EXCEPT !.in_use_mutex = TRUE] ELSE M)
     EXCEPT !.ref_locked = @ + 1]

ref_unlock(M) ==
  LET M1 == [M EXCEPT !.ref_locked = @ - 1]
  IN  IF M1.ref_locked = 0 THEN [M1 EXCEPT !.in_use_mutex = FALSE] ELSE M1

\* ------------------------------------------------------------------------
\* Point operations: <<returned value, machine>>
\* ------------------------------------------------------------------------
\* the while (info == mInfo[idx]) loop of doCreate leaves at q: the info byte
\* differs or the key is there
matchRunEnds(T, key, q) == q.info # InfoAt(T, q.idx) \/ T.kv[q.idx][1] = key

\* what the loop left in found, idx and info
matchRunAt(T, q) == [found |-> q.info = InfoAt(T, q.idx), idx |-> q.idx, info |-> q.info]

\* while (info == mInfo[idx]) { if (equals) found; else step } of doCreate:
\* the loop makes the least number of steps after which it leaves
matchRun(T, key, p) ==
  matchRunAt(T, Steps(T, p, CHOOSE d \in 0 .. T.mask + 1 :
                              /\ matchRunEnds(T, key, Steps(T, p, d))
                              /\ \A e \in 0 .. d - 1 : ~matchRunEnds(T, key, Steps(T, p, e))))

\* variant: the overflow of insertion_info is not flagged
doCreatePlace_unflagged(T, insertion_idx, insertion_info, keyval) ==
  DropDead([shiftUp(T, findEmpty(T, insertion_idx), insertion_idx)
              EXCEPT !.kv = PutKv(@, insertion_idx, keyval),
                     !.info = PutInfo(@, insertion_idx, ToU8(insertion_info)),
                     !.wide = @ \/ insertion_info > 255,
                     !.numElements = @ + 1])

\* doCreate, key not found and the table not full: find an empty spot, shift
\* up, place the node at insertion_idx
doCreatePlace(T, insertion_idx, insertion_info, keyval) ==
  LET T1 == IF insertion_info + T.infoInc > 255
            THEN [T EXCEPT !.maxNumElementsAllowed = 0] ELSE T
  IN  DropDead([shiftUp(T1, findEmpty(T1, insertion_idx), insertion_idx)
                  EXCEPT !.kv = PutKv(@, insertion_idx, keyval),
                         !.info = PutInfo(@, insertion_idx, ToU8(insertion_info)),
                         !.wide = @ \/ insertion_info > 255,
                         !.numElements = @ + 1])

RECURSIVE doCreateLoop(_, _, _)

\* doCreate after increase_size(): continue, i.e. try again (the model stops
\* at a table larger than MaxBuckets, the program at a failed assertion)
doCreateRetry(M1, key, val) ==
  IF M1.over \/ M1.asserted THEN [ret |-> -1, m |-> M1] ELSE doCreateLoop(M1, key, val)

\* variant: a table whose maxNumElementsAllowed is 0 is not taken for full
doCreatePass_unforced(M, key, val, m) ==
  IF m.found
  THEN [ret |-> m.idx,
        m |-> ExitOp(WriteRegion(M, [M.region EXCEPT !.kv = PutKv(@, m.idx, <<key, val>>)]))]
  ELSE IF M.region.maxNumElementsAllowed # 0
          /\ M.region.numElements >= M.region.maxNumElementsAllowed
  THEN doCreateRetry(increase_size(M), key, val)
  ELSE [ret |-> m.idx,
        m |-> ExitOp(WriteRegion(M, doCreatePlace(M.region, m.idx, m.info, <<key, val>>)))]

\* one pass of the while (true) loop of doCreate after the two scans;
\* m: the result of the scan for the key
doCreatePass(M, key, val, m) ==
  IF m.found
  THEN [ret |-> m.idx,
        m |-> ExitOp(WriteRegion(M, [M.region EXCEPT !.kv = PutKv(@, m.idx, <<key, val>>)]))]
  ELSE IF M.region.numElements >= M.region.maxNumElementsAllowed
  THEN doCreateRetry(increase_size(M), key, val)
  ELSE [ret |-> m.idx,
        m |-> ExitOp(WriteRegion(M, doCreatePlace(M.region, m.idx, m.info, <<key, val>>)))]

\* the while (true) loop of doCreate
doCreateLoop(M, key, val) ==
  doCreatePass(M, key, val,
               matchRun(M.region, key, nextWhileLess(M.region, keyToIdx(M.region, key))))

doCreate(M, key, val) == doCreateLoop(reload(EnterOp(M)), key, val)

set(M, key, val) == doCreate(M, key, val)

\* has, from what findIdx returned
hasFound(r) == [ret |-> r.ret >= 0, m |-> ExitOp(r.m)]

has(M, key) == hasFound(findIdx(EnterOp(M), key))

\* find_key, from what findIdx returned
find_keyFound(r) == [ret |-> r.ret, m |-> ExitOp(r.m)]

find_key(M, key) == find_keyFound(findIdx(EnterOp(M), key))

\* get, from what findIdx returned
getFound(r) ==
  [ret |-> IF r.ret >= 0 THEN r.m.region.kv[r.ret][2] ELSE None, m |-> ExitOp(r.m)]

\* get: the value, or None where assert(idx >= 0) fails
get(M, key) == getFound(findIdx(EnterOp(M), key))

\* do { if (match) { shiftDown; --numElements; return 1 } step } while (info <= mInfo[idx])
RECURSIVE eraseLoop(_, _, _)
eraseLoop(T, key, p) ==
  IF p.info = InfoAt(T, p.idx) /\ T.kv[p.idx][1] = key
  THEN [ret |-> 1, T |-> [shiftDown(T, p.idx) EXCEPT !.numElements = @ - 1]]
  ELSE LET q == Step(T, p)
       IN  IF q.info <= InfoAt(T, q.idx) THEN eraseLoop(T, key, q) ELSE [ret |-> 0, T |-> T]

\* erase, from what its loop returned
eraseDone(M1, r) ==
  [ret |-> r.ret, m |-> ExitOp(IF r.ret = 1 THEN WriteRegion(M1, r.T) ELSE M1)]

\* erase on the locked machine, reloaded by keyToIdx
eraseLoaded(M1, key) ==
  eraseDone(M1, eraseLoop(M1.region, key, keyToIdx(M1.region, key)))

erase(M, key) == eraseLoaded(reload(EnterOp(M)), key)

\* variant: the slot count is not doubled until it holds `count`
reserveSize_fixed(newSize, count) == newSize

RECURSIVE reserveSize(_, _)
reserveSize(newSize, count) ==
  IF calcMaxNumElementsAllowed(newSize) < count /\ newSize # 0
  THEN reserveSize(newSize * 2, count) ELSE newSize

reserve(M, count) ==
  LET M1 == EnterOp(M)
      newSize == reserveSize(Max(InitialNumElements, HdrMask(M1) + 1), count)
  IN  ExitOp(rehash(M1, newSize))

\* capacity on the locked machine: <<returned value, machine>>
capacityLocked(M1) ==
  [ret |-> IF M1.mmap_base # NULL THEN HdrMaxNumElementsAllowed(M1)
           ELSE calcMaxNumElementsAllowed(InitialNumElements),
   m |-> ExitOp(M1)]

capacity(M) == capacityLocked(EnterOp(M))

\* variant: the file is left in place
clear_keeps_file(M) ==
  LET M1 == IF M.mmap_base # NULL THEN gc_recycle(M, M.mmap_base) ELSE M
  IN  [M1 EXCEPT !.local_mNumElements = 0,
                 !.local_mMask = 0,
                 !.local_mMaxNumElementsAllowed = 0,
                 !.in_use_mutex = FALSE]

clear(M) ==
  LET M1 == IF M.mmap_base # NULL THEN gc_recycle(M, M.mmap_base) ELSE M
      M2 == unlink([M1 EXCEPT !.in_use_mutex = TRUE])
  IN  [M2 EXCEPT !.local_mNumElements = 0,
                 !.local_mMask = 0,
                 !.local_mMaxNumElementsAllowed = 0,
                 !.in_use_mutex = FALSE]

destroy(M) == IF M.mmap_base # NULL THEN gc_recycle(M, M.mmap_base) ELSE M

\* ------------------------------------------------------------------------
\* Iterators.  An Iter is its mKeyVals and mInfo pointers, as indices into
\* the slot and info arrays of the region mapped at `base`; info = -1 is the
\* nullptr that find/begin/end pass for the end position.
\* ------------------------------------------------------------------------
NoIter == [held |-> FALSE, base |-> NULL, kv |-> 0, info |-> -1]

\* do { n = load 8 info bytes; inc = ctz(n) / 8; advance } while (inc == 8):
\* the walk skips blocks of eight zero bytes and stops in the first block
\* that has a non-zero byte, at that byte, i.e. at the first non-zero info
\* byte at or after i.  A walk that finds none up to the sentinel position
\* has left the info array; it is stopped one past the sentinel position.
fastForward(T, i) ==
  LET nz == {j \in DOMAIN T.info : j >= i /\ j <= T.mask + 1}
  IN  IF nz = {} THEN T.mask + 2 ELSE SetMin(nz)

\* an iterator at slot kv and info byte info of the mapping of M1
IterAt(M1, kv, info) ==
  [it |-> [held |-> TRUE, base |-> M1.mmap_base, kv |-> kv, info |-> info], m |-> M1]

\* Iter(mKeyVals, mInfo, fast_forward_tag): the first occupied slot
IterFastForward(M1, i) == IterAt(M1, i, i)

\* begin() on the locked and reloaded machine
beginLoaded(M1) ==
  IF empty(M1) THEN IterAt(M1, M1.region.mask + 1, -1)
  ELSE IterFastForward(M1, fastForward(M1.region, 0))

\* end() on the locked and reloaded machine
endLoaded(M1) == IterAt(M1, M1.region.mask + 1, -1)

\* begin(): <<iterator, machine>>
begin(M) == beginLoaded(reload(ref_lock(M)))

\* end(): <<iterator, machine>>
end(M) == endLoaded(reload(ref_lock(M)))

\* find, from what findIdx returned
findFound(r) ==
  IF r.ret < 0 THEN IterAt(r.m, r.m.region.mask + 1, -1) ELSE IterAt(r.m, r.ret, r.ret)

\* find(key): <<iterator, machine>>
find(M, key) == findFound(findIdx(ref_lock(M), key))

\* operator++ on an iterator of the mapped table T
IterInc(T, it) ==
  LET i == fastForward(T, it.info + 1)
  IN  [it EXCEPT !.kv = i, !.info = i]

\* for (it = begin(); it != end(); ++it) collect(*it), on a mapped table;
\* pos is it.mKeyVals - mKeyVals
RECURSIVE IterLoop(_, _)
IterLoop(T, pos) ==
  IF pos = T.mask + 1 \/ pos \notin DOMAIN T.kv THEN <<>>
  ELSE <<T.kv[pos]>> \o IterLoop(T, fastForward(T, pos + 1))

IterateLoaded(M1) ==
  IF empty(M1) THEN <<>> ELSE IterLoop(M1.region, fastForward(M1.region, 0))

IterateAll(M) == IterateLoaded(reload(M))

\* ------------------------------------------------------------------------
\* State
\* ------------------------------------------------------------------------
VARIABLES
  alive,                         \* an instance is constructed on (path, name)
  region,                        \* contents of the mapping at mmap_base
  disk, file_exists,             \* the file <path>/<name>
  mmap_base, mmap_fd, mmap_size,
  local_mMask, local_mNumElements, local_mMaxNumElementsAllowed,
  mHdr,                          \* where mMask/mNumElements/mMaxNumElementsAllowed point
  mInc,                          \* where mInfoInc/mInfoHashShift point
  in_use_mutex, ref_locked,
  iters,                         \* the iterator each thread holds
  live,                          \* history: the keys set and not erased or cleared since
  everHeld,                      \* history: an entry has been set since the last clear()
  last,                          \* history: the latest call and its result
  pc                             \* where each thread is inside a call it has entered

vars == <<alive, region, disk, file_exists, mmap_base, mmap_fd,
          mmap_size, local_mMask, local_mNumElements, local_mMaxNumElementsAllowed,
          mHdr, mInc, in_use_mutex, ref_locked, iters, live, everHeld, last, pc, hasher>>

Self ==
  [region |-> region, disk |-> disk, file_exists |-> file_exists,
   mmap_base |-> mmap_base, mmap_fd |-> mmap_fd,
   mmap_size |-> mmap_size, local_mMask |-> local_mMask,
   local_mNumElements |-> local_mNumElements,
   local_mMaxNumElementsAllowed |-> local_mMaxNumElementsAllowed,
   mHdr |-> mHdr, mInc |-> mInc, in_use_mutex |-> in_use_mutex,
   ref_locked |-> ref_locked, gc_live |-> NULL, over |-> FALSE, asserted |-> FALSE]

Becomes(m) ==
  /\ region' = m.region
  /\ disk' = m.disk
  /\ file_exists' = m.file_exists
  /\ mmap_base' = m.mmap_base
  /\ mmap_fd' = m.mmap_fd
  /\ mmap_size' = m.mmap_size
  /\ local_mMask' = m.local_mMask
  /\ local_mNumElements' = m.local_mNumElements
  /\ local_mMaxNumElementsAllowed' = m.local_mMaxNumElementsAllowed
  /\ mHdr' = m.mHdr
  /\ mInc' = m.mInc
  /\ in_use_mutex' = m.in_use_mutex
  /\ ref_locked' = m.ref_locked

\* members after map(path, name): the member initialisers and setup_pointers
Constructed(M) ==
  [M EXCEPT !.region = ZeroTable(0), !.mmap_base = NULL, !.mmap_fd = -1,
            !.mmap_size = 0, !.local_mMask = 0, !.local_mNumElements = 0,
            !.local_mMaxNumElementsAllowed = 0, !.mHdr = "local", !.mInc = "static",
            !.in_use_mutex = FALSE, !.ref_locked = 0]

Keys == FreeKeys
FillerKeys == {Fillers[i] : i \in 1 .. Len(Fillers)}
AllKeys == Keys \cup FillerKeys

\* The record of a call.  had: has(key) before the call (for clear: the file
\* existed); size0: size() before the call; foreign: a thread other than the
\* caller held an iterator when the call was made; grew: what increase_size
\* did during the call
Call(op, key, val, ret, had, size0, foreign, grew) ==
  [op |-> op, key |-> key, val |-> val, ret |-> ret, had |-> had, size0 |-> size0,
   foreign |-> foreign, grew |-> grew]
Other(op) == Call(op, 0, 0, 0, FALSE, 0, FALSE, "no")

\* what happened to the table between machine M (reloaded) and machine N
GrewFrom(T, N) ==
  IF N.asserted THEN "assert"
  ELSE IF N.region.mask # T.mask THEN "rehash"
  ELSE IF N.region.infoInc # T.infoInc THEN "info"
  ELSE "no"

Grew(M, N) == GrewFrom(reload(M).region, N)

\* a machine before any file exists: no instance, no file
Blank ==
  Constructed([region |-> ZeroTable(0), disk |-> ZeroTable(0), file_exists |-> FALSE,
               mmap_base |-> NULL, mmap_fd |-> -1, mmap_size |-> 0,
               local_mMask |-> 0, local_mNumElements |-> 0,
               local_mMaxNumElementsAllowed |-> 0, mHdr |-> "local", mInc |-> "static",
               in_use_mutex |-> FALSE, ref_locked |-> 0, gc_live |-> NULL, over |-> FALSE, asserted |-> FALSE])

\* the members and the file are those of machine M
StartsAs(M) ==
  /\ region = M.region
  /\ disk = M.disk
  /\ file_exists = M.file_exists
  /\ mmap_base = M.mmap_base
  /\ mmap_fd = M.mmap_fd
  /\ mmap_size = M.mmap_size
  /\ local_mMask = M.local_mMask
  /\ local_mNumElements = M.local_mNumElements
  /\ local_mMaxNumElementsAllowed = M.local_mMaxNumElementsAllowed
  /\ mHdr = M.mHdr
  /\ mInc = M.mInc
  /\ in_use_mutex = M.in_use_mutex
  /\ ref_locked = M.ref_locked

\* the earlier run: an instance on (path, name), now machine M, set keys[i]
\* and the keys after it and was destroyed; the instance of this run is then
\* constructed
RECURSIVE StartsAfter(_, _, _)
StartsAfter(M, keys, i) ==
  IF i > Len(keys) THEN \E m \in {Constructed(destroy(M))} : StartsAs(m)
  ELSE \E m \in {set(M, keys[i], 1).m} : StartsAfter(m, keys, i + 1)

EarlierRun == StartsAfter(Blank, Fillers, 1)

\* no thread is inside a call
Idle == [at |-> "idle", key |-> 0]

Init ==
  /\ alive = TRUE
  /\ hasher = DefaultHasher
  /\ pc = [t \in Threads |-> Idle]
  /\ EarlierRun
  /\ iters = [t \in Threads |-> NoIter]
  /\ live = FillerKeys
  /\ everHeld = TRUE
  /\ last = Other("construct")

\* ------------------------------------------------------------------------
\* Actions: one per call into the map
\* ------------------------------------------------------------------------
Foreign(t) == \E u \in Threads \ {t} : iters[u].held

\* set(k, v) has returned r
SetReturns(t, k, v, r) ==
  /\ ~r.m.over
  /\ size(r.m) <= Cardinality(live \cup {k}) + MaxExtra
  /\ Becomes(r.m)
  /\ alive' = ~r.m.asserted
  /\ last' = Call("set", k, v, r.ret, has(Self, k).ret, size(Self), Foreign(t), Grew(Self, r.m))

Set(t, k, v) ==
  /\ alive /\ CanEnter(Self)
  /\ SetReturns(t, k, v, set(Self, k, v))
  /\ live' = live \cup {k}
  /\ everHeld' = TRUE
  /\ UNCHANGED <<hasher, pc, iters>>

\* erase(k) has returned r
EraseReturns(t, k, r) ==
  /\ Becomes(r.m)
  /\ last' = Call("erase", k, 0, r.ret, has(Self, k).ret, size(Self), Foreign(t), "no")

Erase(t, k) ==
  /\ alive /\ CanEnter(Self)
  /\ EraseReturns(t, k, erase(Self, k))
  /\ live' = live \ {k}
  /\ everHeld' = everHeld
  /\ UNCHANGED <<hasher, pc, alive, iters>>

Has(t, k) ==
  /\ alive /\ CanEnter(Self)
  /\ Becomes(has(Self, k).m)
  /\ last' = Other("has")
  /\ UNCHANGED <<hasher, pc, alive, iters, live, everHeld>>

\* reserve(n) has left the machine as m
ReserveReturns(m) ==
  /\ ~m.over
  /\ Becomes(m)
  /\ last' = Other("reserve")

Reserve(t, n) ==
  /\ alive /\ CanEnter(Self)
  /\ ReserveReturns(reserve(Self, n))
  /\ UNCHANGED <<hasher, pc, alive, iters, live, everHeld>>

\* clear(): assert(!ref_locked) is the caller's obligation
Clear(t) ==
  /\ alive /\ ref_locked = 0 /\ ~in_use_mutex
  /\ Becomes(clear(Self))
  /\ last' = Call("clear", 0, 0, 0, file_exists, size(Self), FALSE, "no")
  /\ live' = {}
  /\ everHeld' = FALSE
  /\ UNCHANGED <<hasher, pc, alive, iters>>

\* mmap_gc reclaims the mapping: it calls gc_done and, when that returns
\* true, unmaps the region
GcDoneReturns(r) ==
  /\ Becomes(gc_unmap(r))
  /\ last' = Call("gc_done", 0, 0, IF r.ret THEN 1 ELSE 0, FALSE, size(Self), FALSE, "no")

GcDone ==
  /\ alive /\ mmap_base # NULL
  /\ GcDoneReturns(gc_done(Self, mmap_base))
  /\ UNCHANGED <<hasher, pc, alive, iters, live, everHeld>>

\* ~map(): no iterator outlives the map
Destroy ==
  /\ alive /\ ref_locked = 0 /\ ~in_use_mutex
  /\ Becomes(destroy(Self))
  /\ alive' = FALSE
  /\ last' = Call("destroy", 0, 0, 0, file_exists, size(Self), FALSE, "no")
  /\ UNCHANGED <<hasher, pc, iters, live, everHeld>>

\* map(path, name) on the same (path, name)
Construct ==
  /\ ~alive
  /\ Becomes(Constructed(Self))
  /\ alive' = TRUE
  /\ last' = Other("construct")
  /\ UNCHANGED <<hasher, pc, iters, live, everHeld>>

\* begin() has returned r
BeginReturns(t, r) ==
  /\ Becomes(r.m)
  /\ iters' = [iters EXCEPT ![t] = r.it]
  /\ last' = Other("begin")

Begin(t) ==
  /\ alive /\ ~iters[t].held /\ CanEnter(Self)
  /\ BeginReturns(t, begin(Self))
  /\ UNCHANGED <<hasher, pc, alive, live, everHeld>>

\* ++it: undefined at end(), so only called on an iterator that is not there
Incr(t) ==
  /\ alive /\ iters[t].held /\ iters[t].info >= 0
  /\ mmap_base # NULL /\ iters[t].base = mmap_base
  /\ iters[t].kv # region.mask + 1
  /\ iters' = [iters EXCEPT ![t] = IterInc(region, iters[t])]
  /\ last' = Other("incr")
  /\ UNCHANGED <<hasher, pc, alive, region, disk, file_exists, mmap_base, mmap_fd,
                 mmap_size, local_mMask, local_mNumElements, local_mMaxNumElementsAllowed,
                 mHdr, mInc, in_use_mutex, ref_locked, live, everHeld>>

\* ~Iter()
Release(t) ==
  /\ alive /\ iters[t].held
  /\ Becomes(ref_unlock(Self))
  /\ iters' = [iters EXCEPT ![t] = NoIter]
  /\ last' = Other("release")
  /\ UNCHANGED <<hasher, pc, alive, live, everHeld>>

\* it = find(k), into an iterator variable that holds nothing
Find(t, k) ==
  /\ alive /\ ~iters[t].held /\ CanEnter(Self) /\ ref_locked < MaxLocks
  /\ BeginReturns(t, find(Self, k))
  /\ UNCHANGED <<hasher, pc, alive, live, everHeld>>

\* it = end(), into an iterator variable that holds nothing
End(t) ==
  /\ alive /\ ~iters[t].held /\ CanEnter(Self) /\ ref_locked < MaxLocks
  /\ BeginReturns(t, end(Self))
  /\ UNCHANGED <<hasher, pc, alive, live, everHeld>>

\* Iter(const Iter& other): the fields are copied and ref_lock is called
Copy(t, u) ==
  /\ alive /\ ~iters[t].held /\ iters[u].held /\ ref_locked < MaxLocks
  /\ Becomes(ref_lock(Self))
  /\ iters' = [iters EXCEPT ![t] = iters[u]]
  /\ last' = Other("copy")
  /\ UNCHANGED <<hasher, pc, alive, live, everHeld>>

\* operator=(const Iter& other) on an iterator that holds a lock already:
\* the fields are overwritten and ref_lock is called
Assign(t, u) ==
  /\ alive /\ iters[t].held /\ iters[u].held /\ ref_locked < MaxLocks
  /\ Becomes(ref_lock(Self))
  /\ iters' = [iters EXCEPT ![t] = iters[u]]
  /\ last' = Other("assign")
  /\ UNCHANGED <<hasher, pc, alive, live, everHeld>>

ReserveCounts == {1, calcMaxNumElementsAllowed(InitialNumElements) + 1}

\* the value stored with key k in a run of sets of the keys 1, 2, 3, ...
ValOf(k) == (k % 2) + 1

KeyLimit == IF hasher.same THEN MaxSameKeys ELSE MaxFillKeys

\* set(k, ValOf(k)) for the next key of 1, 2, 3, ...
SetNextKey ==
  /\ Cardinality(live) < KeyLimit
  /\ Set(MainThread, Cardinality(live) + 1, ValOf(Cardinality(live) + 1))

\* ------------------------------------------------------------------------
\* The lock protocol step by step: has, begin and ~Iter with one access to
\* in_use_mutex or ref_locked (both std::atomic) per step
\* ------------------------------------------------------------------------
At(t, where) == pc[t].at = where
Goto(t, where, k) == pc' = [pc EXCEPT ![t] = [at |-> where, key |-> k]]

\* what the lock steps leave alone
Table == <<region, disk, file_exists, mmap_base, mmap_fd, mmap_size, local_mMask,
           local_mNumElements, local_mMaxNumElementsAllowed, mHdr, mInc>>

\* has: if (!ref_locked)
HasEnter(t, k) ==
  /\ alive /\ At(t, "idle")
  /\ Goto(t, IF ref_locked = 0 THEN "has_spin" ELSE "has_body", k)
  /\ UNCHANGED <<Table, in_use_mutex, ref_locked, alive, iters, live, everHeld, last, hasher>>

\* has: while (atomic_exchange(in_use_mutex, true)) ;
HasSpin(t) ==
  /\ At(t, "has_spin") /\ ~in_use_mutex
  /\ in_use_mutex' = TRUE
  /\ Goto(t, "has_body", pc[t].key)
  /\ UNCHANGED <<Table, ref_locked, alive, iters, live, everHeld, last, hasher>>

\* has: auto ret = findIdx(key) >= 0
HasBody(t) ==
  /\ At(t, "has_body")
  /\ Becomes(findIdx(Self, pc[t].key).m)
  /\ Goto(t, "has_exit", 0)
  /\ UNCHANGED <<alive, iters, live, everHeld, last, hasher>>

\* has: if (!ref_locked)
HasExit(t) ==
  /\ At(t, "has_exit")
  /\ Goto(t, IF ref_locked = 0 THEN "has_store" ELSE "idle", 0)
  /\ UNCHANGED <<Table, in_use_mutex, ref_locked, alive, iters, live, everHeld, last, hasher>>

\* has: in_use_mutex.store(false); return ret
HasStore(t) ==
  /\ At(t, "has_store")
  /\ in_use_mutex' = FALSE
  /\ Goto(t, "idle", 0)
  /\ UNCHANGED <<Table, ref_locked, alive, iters, live, everHeld, last, hasher>>

\* begin -> ref_lock: if (ref_locked == 0)
LockEnter(t) ==
  /\ alive /\ At(t, "idle") /\ ~iters[t].held
  /\ Goto(t, IF ref_locked = 0 THEN "lock_spin" ELSE "lock_inc", 0)
  /\ UNCHANGED <<Table, in_use_mutex, ref_locked, alive, iters, live, everHeld, last, hasher>>

\* ref_lock: while (atomic_exchange(in_use_mutex, true)) ;
LockSpin(t) ==
  /\ At(t, "lock_spin") /\ ~in_use_mutex
  /\ in_use_mutex' = TRUE
  /\ Goto(t, "lock_inc", 0)
  /\ UNCHANGED <<Table, ref_locked, alive, iters, live, everHeld, last, hasher>>

\* ref_lock: ++ref_locked
LockInc(t) ==
  /\ At(t, "lock_inc")
  /\ ref_locked' = ref_locked + 1
  /\ Goto(t, "begin_body", 0)
  /\ UNCHANGED <<Table, in_use_mutex, alive, iters, live, everHeld, last, hasher>>

\* begin after ref_lock
BeginBodyReturns(t, r) ==
  /\ Becomes(r.m)
  /\ iters' = [iters EXCEPT ![t] = r.it]

\* begin: reload(); return the iterator
BeginBody(t) ==
  /\ At(t, "begin_body")
  /\ BeginBodyReturns(t, beginLoaded(reload(Self)))
  /\ Goto(t, "idle", 0)
  /\ UNCHANGED <<alive, live, everHeld, last, hasher>>

\* ~Iter -> ref_unlock: --ref_locked
UnlockDec(t) ==
  /\ alive /\ At(t, "idle") /\ iters[t].held
  /\ ref_locked' = ref_locked - 1
  /\ iters' = [iters EXCEPT ![t] = NoIter]
  /\ Goto(t, "unlock_assert", 0)
  /\ UNCHANGED <<Table, in_use_mutex, alive, live, everHeld, last, hasher>>

\* ref_unlock: assert(in_use_mutex); ret records whether it holds
UnlockAssert(t) ==
  /\ At(t, "unlock_assert")
  /\ last' = Call("ref_unlock", 0, 0, IF in_use_mutex THEN 1 ELSE 0, FALSE, 0, FALSE, "no")
  /\ Goto(t, "unlock_test", 0)
  /\ UNCHANGED <<Table, in_use_mutex, ref_locked, alive, iters, live, everHeld, hasher>>

\* ref_unlock: if (ref_locked == 0)
UnlockTest(t) ==
  /\ At(t, "unlock_test")
  /\ Goto(t, IF ref_locked = 0 THEN "unlock_store" ELSE "idle", 0)
  /\ UNCHANGED <<Table, in_use_mutex, ref_locked, alive, iters, live, everHeld, last, hasher>>

\* ref_unlock: in_use_mutex.store(false)
UnlockStore(t) ==
  /\ At(t, "unlock_store")
  /\ in_use_mutex' = FALSE
  /\ Goto(t, "idle", 0)
  /\ UNCHANGED <<Table, ref_locked, alive, iters, live, everHeld, last, hasher>>

Next ==
  \/ \E k \in Keys, v \in Vals : Set(MainThread, k, v)
  \/ \E k \in Keys : Erase(MainThread, k)
  \/ \E k \in Keys : Has(MainThread, k)
  \/ \E n \in ReserveCounts : Reserve(MainThread, n)
  \/ Clear(MainThread)
  \/ GcDone
  \/ Destroy
  \/ Construct

\* one thread calling into one instance, with reclamation at any time
Spec == Init /\ [][Next]_vars

NextMT ==
  \/ \E t \in Threads, k \in Keys, v \in Vals : Set(t, k, v)
  \/ \E t \in Threads, k \in Keys : Erase(t, k)
  \/ \E t \in Threads, n \in ReserveCounts : Reserve(t, n)
  \/ \E t \in IterThreads : Begin(t)
  \/ \E t \in IterThreads : Incr(t)
  \/ \E t \in IterThreads : Release(t)
  \/ GcDone

\* several threads; the iterating threads hold at most one iterator each
SpecMT == Init /\ [][NextMT]_vars

\* a fresh map on a new file, instantiated with the default hasher or with a
\* hasher that returns one value for every key
InitGrow ==
  /\ alive = TRUE
  /\ hasher \in {DefaultHasher} \cup {[same |-> TRUE, value |-> c] : c \in SameHashes}
  /\ pc = [t \in Threads |-> Idle]
  /\ \E m \in {Constructed(Blank)} : StartsAs(m)
  /\ iters = [t \in Threads |-> NoIter]
  /\ live = {}
  /\ everHeld = FALSE
  /\ last = Other("construct")

NextGrow == SetNextKey

SpecGrow == InitGrow /\ [][NextGrow]_vars

\* keys whose home bucket is 1021, the third slot from the end of a table of
\* 1024 slots: with four of them set the run wraps from the last slot to
\* slot 0 (hash bits 2, 0, 8 and 5)
WrapKeys == {829, 1554, 4246, 4971}

\* a fresh map on a path where no file exists
InitWrap ==
  /\ alive = TRUE
  /\ hasher = DefaultHasher
  /\ pc = [t \in Threads |-> Idle]
  /\ \E m \in {Constructed(Blank)} : StartsAs(m)
  /\ iters = [t \in Threads |-> NoIter]
  /\ live = {}
  /\ everHeld = FALSE
  /\ last = Other("construct")

NextWrap ==
  \/ \E k \in WrapKeys, v \in Vals : Set(MainThread, k, v)
  \/ \E k \in WrapKeys : Erase(MainThread, k)

\* one thread setting and erasing keys of one home bucket near the end of
\* the table
SpecWrap == InitWrap /\ [][NextWrap]_vars

NextIter ==
  \/ \E t \in Threads : Begin(t)
  \/ \E t \in Threads : End(t)
  \/ \E t \in Threads, k \in Keys : Find(t, k)
  \/ \E t, u \in Threads : Copy(t, u)
  \/ \E t, u \in Threads : Assign(t, u)
  \/ \E t \in Threads : Incr(t)
  \/ \E t \in Threads : Release(t)
  \/ \E k \in Keys, v \in Vals : Set(MainThread, k, v)

\* one thread with two iterator variables (named after the threads)
SpecIter == Init /\ [][NextIter]_vars

NextLock ==
  \/ \E t \in Threads, k \in Keys : HasEnter(t, k)
  \/ \E t \in Threads : HasSpin(t)
  \/ \E t \in Threads : HasBody(t)
  \/ \E t \in Threads : HasExit(t)
  \/ \E t \in Threads : HasStore(t)
  \/ \E t \in Threads : LockEnter(t)
  \/ \E t \in Threads : LockSpin(t)
  \/ \E t \in Threads : LockInc(t)
  \/ \E t \in Threads : BeginBody(t)
  \/ \E t \in Threads : UnlockDec(t)
  \/ \E t \in Threads : UnlockAssert(t)
  \/ \E t \in Threads : UnlockTest(t)
  \/ \E t \in Threads : UnlockStore(t)
  \/ GcDone

\* several threads, their steps interleaved at every access to the lock words
SpecLock == Init /\ [][NextLock]_vars

\* ------------------------------------------------------------------------
\* The point operations step by step: has, get, set, erase(key) and reserve
\* begin with the same test and spin and end with the same test and store
\* ------------------------------------------------------------------------
PointOps == {"has", "get", "set", "erase", "reserve"}

SpinAt == [has |-> "has_wait", get |-> "get_wait", set |-> "set_wait",
           erase |-> "erase_wait", reserve |-> "reserve_wait"]
BodyAt == [has |-> "has_run", get |-> "get_run", set |-> "set_run",
           erase |-> "erase_run", reserve |-> "reserve_run"]
\* the body of a call that found ref_locked > 0 and did not take the mutex
FreeAt == [has |-> "has_free", get |-> "get_free", set |-> "set_free",
           erase |-> "erase_free", reserve |-> "reserve_free"]

\* the arguments the threads pass: a key, or the count of reserve
PointArgs(op) == IF op = "reserve" THEN ReserveCounts ELSE Keys

\* the call op(a) as a whole, on machine M
PointCall(M, op, a) ==
  CASE op = "has" -> has(M, a).m
    [] op = "get" -> get(M, a).m
    [] op = "set" -> set(M, a, 1).m
    [] op = "erase" -> erase(M, a).m
    [] op = "reserve" -> reserve(M, a)

\* op: if (!ref_locked)
PointEnter(t, op, a) ==
  /\ alive /\ At(t, "idle")
  /\ Goto(t, IF ref_locked = 0 THEN SpinAt[op] ELSE FreeAt[op], a)
  /\ UNCHANGED <<Table, in_use_mutex, ref_locked, alive, iters, live, everHeld, last, hasher>>

\* variant: the exchange is not repeated when it returns true
PointSpin_once(t) ==
  \E op \in PointOps :
     /\ At(t, SpinAt[op])
     /\ in_use_mutex' = TRUE
     /\ Goto(t, BodyAt[op], pc[t].key)
     /\ UNCHANGED <<Table, ref_locked, alive, iters, live, everHeld, last, hasher>>

\* op: while (atomic_exchange(in_use_mutex, true)) ;
PointSpin(t) ==
  \E op \in PointOps :
     /\ At(t, SpinAt[op]) /\ ~in_use_mutex
     /\ in_use_mutex' = TRUE
     /\ Goto(t, BodyAt[op], pc[t].key)
     /\ UNCHANGED <<Table, ref_locked, alive, iters, live, everHeld, last, hasher>>

\* the call has run up to its exit test and left the machine as m; the
\* mutex is as it was on entry
PointRan(t, op, m) ==
  /\ ~m.over /\ ~m.asserted
  /\ Becomes([m EXCEPT !.in_use_mutex = in_use_mutex])
  /\ live' = IF op = "set" THEN live \cup {pc[t].key}
             ELSE IF op = "erase" THEN live \ {pc[t].key} ELSE live
  /\ everHeld' = (everHeld \/ op = "set")
  /\ last' = Other(op)

\* op: the statements between the entry and the exit test; from here on
\* pc[t].key is 1 when the call took the mutex on entry and 0 when it did not
PointBody(t) ==
  \E op \in PointOps :
     /\ At(t, BodyAt[op]) \/ At(t, FreeAt[op])
     /\ PointRan(t, op, PointCall(Self, op, pc[t].key))
     /\ Goto(t, "exit_test", IF At(t, BodyAt[op]) THEN 1 ELSE 0)
     /\ UNCHANGED <<alive, iters, hasher>>

\* op: if (!ref_locked)
PointExit(t) ==
  /\ At(t, "exit_test")
  /\ pc' = [pc EXCEPT ![t] = IF ref_locked = 0 THEN [at |-> "exit_store", key |-> @.key] ELSE Idle]
  /\ UNCHANGED <<Table, in_use_mutex, ref_locked, alive, iters, live, everHeld, last, hasher>>

\* op: in_use_mutex.store(false); return
PointStore(t) ==
  /\ At(t, "exit_store")
  /\ in_use_mutex' = FALSE
  /\ Goto(t, "idle", 0)
  /\ UNCHANGED <<Table, ref_locked, alive, iters, live, everHeld, last, hasher>>

NextPoint ==
  \/ \E t \in Threads, op \in PointOps : \E a \in PointArgs(op) : PointEnter(t, op, a)
  \/ \E t \in Threads : PointSpin(t)
  \/ \E t \in Threads : PointBody(t)
  \/ \E t \in Threads : PointExit(t)
  \/ \E t \in Threads : PointStore(t)
  \/ GcDone

\* the point operations of two threads interleaved at every access to the
\* lock words, with reclamation at any time; nobody takes an iterator or a
\* ref_lock, so ref_locked stays 0
SpecPoint == Init /\ [][NextPoint]_vars

NextOwn ==
  \/ \E t \in Threads, k \in Keys : PointEnter(t, "has", k)
  \/ \E t \in Threads : PointSpin(t)
  \/ \E t \in Threads : PointBody(t)
  \/ \E t \in Threads : PointExit(t)
  \/ \E t \in Threads : PointStore(t)
  \/ \E t \in Threads : LockEnter(t)
  \/ \E t \in Threads : LockSpin(t)
  \/ \E t \in Threads : LockInc(t)
  \/ \E t \in Threads : BeginBody(t)
  \/ \E t \in Threads : UnlockDec(t)
  \/ \E t \in Threads : UnlockAssert(t)
  \/ \E t \in Threads : UnlockTest(t)
  \/ \E t \in Threads : UnlockStore(t)

\* point operations and iterators (begin, ~Iter) of two threads, interleaved
\* at every access to the lock words
SpecOwn == Init /\ [][NextOwn]_vars

\* ------------------------------------------------------------------------
\* Lgraph::each_pin over node_internal, the map from Index_id to the node
\* record.  A record is stored as a number: 1 + is_last_state + 2 * dst_pid
\* + 4 * (position of the next index in NodeIds - 1).
\* ------------------------------------------------------------------------
NodeIds == <<725, 2796>>
Pids == {0, 1}
NodeVals == 1 .. 4 * Len(NodeIds)

is_last_state(v) == (v - 1) % 2 = 1
get_dst_pid(v) == ((v - 1) \div 2) % 2
get_next(v) == NodeIds[((v - 1) \div 4) + 1]

\* map::ref(key): the machine after findIdx and the records the returned
\* pointer can give; with the key absent (assert(idx >= 0) compiled out) it
\* points before the slot array and any record may be read
ref(M, key) ==
  LET r == findIdx(M, key)
  IN  [m |-> r.m,
       vals |-> IF r.ret >= 0 THEN {r.m.region.kv[r.ret][2]} ELSE NodeVals]

\* what the steps of each_pin that do not touch the map leave alone
PinFrame == <<Table, in_use_mutex, ref_locked, alive, iters, live, everHeld, last, hasher>>

\* each_pin(dpin, f1): idx2 = first_idx2 = dpin.get_root_idx(); last records
\* the call (key: first_idx2, val: dpin.get_pid())
EachPinCall(t, first, pid) ==
  /\ alive /\ At(t, "idle") /\ CanEnter(Self)
  /\ Goto(t, "pin_f1", first)
  /\ last' = Call("each_pin", first, pid, 0, FALSE, 0, FALSE, "no")
  /\ UNCHANGED <<Table, in_use_mutex, ref_locked, alive, iters, live, everHeld, hasher>>

\* bool cont = f1(idx2); if (!cont) return;
EachPinF1(t, cont) ==
  /\ At(t, "pin_f1")
  /\ Goto(t, IF cont THEN "pin_lock" ELSE "idle", IF cont THEN pc[t].key ELSE 0)
  /\ UNCHANGED PinFrame

\* node_internal.ref_lock()
EachPinLock(t) ==
  /\ At(t, "pin_lock")
  /\ Becomes(ref_lock(Self))
  /\ Goto(t, "pin_last", pc[t].key)
  /\ UNCHANGED <<alive, iters, live, everHeld, last, hasher>>

\* variant: the return at the end of the chain does not release the lock
EachPinLast_leaks(t) ==
  \E r \in {ref(Self, pc[t].key)} : \E v \in r.vals :
     /\ At(t, "pin_last")
     /\ Becomes(r.m)
     /\ Goto(t, IF is_last_state(v) THEN "idle" ELSE "pin_next",
                IF is_last_state(v) THEN 0 ELSE pc[t].key)
     /\ UNCHANGED <<alive, iters, live, everHeld, last, hasher>>

\* if (node_internal.ref(idx2)->is_last_state())
EachPinLast(t) ==
  \E r \in {ref(Self, pc[t].key)} : \E v \in r.vals :
     /\ At(t, "pin_last")
     /\ Becomes(r.m)
     /\ Goto(t, IF is_last_state(v) THEN "pin_unlock_return" ELSE "pin_next", pc[t].key)
     /\ UNCHANGED <<alive, iters, live, everHeld, last, hasher>>

\* idx2 = node_internal.ref(idx2)->get_next()
EachPinNext(t) ==
  \E r \in {ref(Self, pc[t].key)} : \E v \in r.vals :
     /\ At(t, "pin_next")
     /\ Becomes(r.m)
     /\ Goto(t, "pin_first", get_next(v))
     /\ UNCHANGED <<alive, iters, live, everHeld, last, hasher>>

\* if (idx2 == first_idx2)
EachPinFirst(t) ==
  /\ At(t, "pin_first")
  /\ Goto(t, IF pc[t].key = last.key THEN "pin_unlock_return" ELSE "pin_pid", pc[t].key)
  /\ UNCHANGED PinFrame

\* while (node_internal.ref(idx2)->get_dst_pid() != dpin.get_pid())
EachPinPid(t) ==
  \E r \in {ref(Self, pc[t].key)} : \E v \in r.vals :
     /\ At(t, "pin_pid")
     /\ Becomes(r.m)
     /\ Goto(t, IF get_dst_pid(v) # last.val THEN "pin_last" ELSE "pin_unlock", pc[t].key)
     /\ UNCHANGED <<alive, iters, live, everHeld, last, hasher>>

\* node_internal.ref_unlock() after the do-while: round the outer loop again
EachPinUnlock(t) ==
  /\ At(t, "pin_unlock")
  /\ Becomes(ref_unlock(Self))
  /\ Goto(t, "pin_f1", pc[t].key)
  /\ UNCHANGED <<alive, iters, live, everHeld, last, hasher>>

\* node_internal.ref_unlock(); return;
EachPinUnlockReturn(t) ==
  /\ At(t, "pin_unlock_return")
  /\ Becomes(ref_unlock(Self))
  /\ Goto(t, "idle", 0)
  /\ UNCHANGED <<alive, iters, live, everHeld, last, hasher>>

NextPin ==
  \/ \E i \in DOMAIN NodeIds, v \in NodeVals :
        At(MainThread, "idle") /\ Set(MainThread, NodeIds[i], v)
  \/ \E i \in DOMAIN NodeIds : At(MainThread, "idle") /\ Erase(MainThread, NodeIds[i])
  \/ \E i \in DOMAIN NodeIds, pid \in Pids : EachPinCall(MainThread, NodeIds[i], pid)
  \/ \E cont \in BOOLEAN : EachPinF1(MainThread, cont)
  \/ EachPinLock(MainThread)
  \/ EachPinLast(MainThread)
  \/ EachPinNext(MainThread)
  \/ EachPinFirst(MainThread)
  \/ EachPinPid(MainThread)
  \/ EachPinUnlock(MainThread)
  \/ EachPinUnlockReturn(MainThread)

\* one thread that builds node_internal with set and erase and walks it with
\* each_pin
SpecPin == Init /\ [][NextPin]_vars

\* ------------------------------------------------------------------------
\* Properties
\* ------------------------------------------------------------------------
Mapped == mmap_base # NULL
HasKey(k) == has(Self, k).ret
GetVal(k) == get(Self, k).ret
Sentinel == InfoAt(region, region.mask + 1)

\* C1: after set(k, v) has returned, get(k) returns v, whether the set
\* inserted a new entry, updated one in place, or grew the table on the way.
C1_SetThenGet == last.op = "set" => GetVal(last.key) = last.val

\* a set of a new key that halved infoInc (try_increase_info) before placing it
C1_Witness == last.op = "set" /\ ~last.had /\ last.grew = "info" /\ GetVal(last.key) = last.val

\* C2: a set of a key that was present leaves size() as it was before the
\* call, and get(k) returns the new value.
C2_UpdateKeepsSize ==
  (last.op = "set" /\ last.had) => (size(Self) = last.size0 /\ GetVal(last.key) = last.val)

\* C3: an erase of a key that was present returns 1, size() is one less than
\* before the call, has(k) is false, and a second erase(k) returns 0.
C3_EraseRemoves ==
  (last.op = "erase" /\ last.had) =>
     /\ last.ret = 1
     /\ size(Self) = last.size0 - 1
     /\ ~HasKey(last.key)
     /\ erase(Self, last.key).ret = 0

\* the keys a walk from begin() to end() yields, in order
IteratedKeys == LET s == IterateAll(Self) IN [i \in 1 .. Len(s) |-> s[i][1]]

\* C4: a walk from begin() to end() yields every key that was set and not
\* erased since exactly once, and no other key.
C4_IterationExact ==
  alive => /\ {IteratedKeys[i] : i \in 1 .. Len(IteratedKeys)} = live
           /\ Len(IteratedKeys) = Cardinality(live)

\* C5 as claimed: on a mapped table numElements <= maxNumElementsAllowed <= mask + 1.
C5_LoadOrder ==
  Mapped => /\ region.numElements <= region.maxNumElementsAllowed
            /\ region.maxNumElementsAllowed <= region.mask + 1

\* C5 as amended: on a mapped table maxNumElementsAllowed <= mask + 1, and
\* numElements <= maxNumElementsAllowed unless maxNumElementsAllowed is 0,
\* the value a displacement overflow writes to force growth on the next insert.
C5_LoadOrderUnlessFlagged ==
  Mapped => /\ region.maxNumElementsAllowed <= region.mask + 1
            /\ (region.maxNumElementsAllowed # 0 =>
                  region.numElements <= region.maxNumElementsAllowed)

\* a set has just raised the overflow flag on a table that holds entries
C5_Witness ==
  Mapped /\ last.op = "set" /\ region.maxNumElementsAllowed = 0 /\ region.numElements > 0

\* C6: whenever a region is mapped, the info byte at index mask + 1 is 1.
C6_Sentinel == Mapped => Sentinel = 1

\* a mapped table whose info bytes try_increase_info has shifted
C6_Witness == Mapped /\ region.infoInc < InitialInfoInc /\ Sentinel = 1 /\ region.numElements > 0

\* C7: destroying an instance that holds entries and constructing a new one
\* on the same (path, name) gives the same size() and the same has(k) and
\* get(k) for every key.
C7_RoundTrip ==
  [][(last'.op = "destroy" /\ last'.size0 > 0) =>
        LET N == Constructed(Self')
        IN  /\ size(N) = size(Self)
            /\ \A k \in AllKeys : /\ has(N, k).ret = has(Self, k).ret
                                  /\ get(N, k).ret = get(Self, k).ret]_vars

\* C8: after gc_done has returned true, size() (before and after the reload
\* of the next operation), has(k) and get(k) give for every key what they
\* gave immediately before the reclamation.
C8_ReclaimPreserves ==
  [][(last'.op = "gc_done" /\ last'.ret = 1) =>
        /\ size(Self') = size(Self)
        /\ \A k \in AllKeys : /\ has(Self', k).ret = has(Self, k).ret
                              /\ get(Self', k).ret = get(Self, k).ret
                              /\ size(has(Self', k).m) = size(Self)]_vars

\* the region of a table that held entries has just been reclaimed
C8_Witness == last.op = "gc_done" /\ last.ret = 1 /\ last.size0 > 0 /\ ~Mapped /\ file_exists

\* C9: after clear() has returned, the file does not exist and empty() is true.
C9_ClearRemovesFile == last.op = "clear" => (~file_exists /\ empty(Self))

\* a clear of a map that had a file and held entries
C9_Witness == last.op = "clear" /\ last.had /\ last.size0 > 0

\* C10: a set called while a thread other than the caller holds an iterator
\* does not modify the table or return before that iterator is destroyed:
\* no set returns having been called while such an iterator was held.
C10_SetWaitsForIterators == last.op = "set" => ~last.foreign

\* C11: while ref_locked > 0, a set or a reserve (by any thread, the holder
\* of the lock included) leaves mmap_base, the mask and the slot of every
\* entry as they were.
C11_NoGrowthWhileLocked ==
  [][(ref_locked > 0 /\ ref_locked' > 0 /\ last'.op \in {"set", "reserve"}) =>
       /\ mmap_base' = mmap_base
       /\ region'.mask = region.mask
       /\ \A i \in DOMAIN region.kv :
            i \in DOMAIN region'.kv /\ region'.kv[i][1] = region.kv[i][1]]_vars

\* C12: under every interleaving of has, begin, ~Iter and gc_done,
\* ref_locked > 0 implies that in_use_mutex is held, and the assert(in_use_mutex)
\* of ref_unlock finds it held.
C12_LockedImpliesMutex ==
  /\ ref_locked > 0 => in_use_mutex
  /\ last.op = "ref_unlock" => last.ret = 1

\* C13: gc_done does not return true (null mmap_base) while ref_locked > 0 or
\* while a thread is inside a call, past its lock entry.
C13_GcOnlyWhenQuiescent ==
  [][(mmap_base # NULL /\ mmap_base' = NULL) =>
       /\ ref_locked = 0
       /\ \A t \in Threads : pc[t].at \in {"idle", "has_spin", "lock_spin"}]_vars

\* C14: gc_done(base) called with base # mmap_base or with in_use_mutex held
\* returns false and leaves every member, the lock state and the file as
\* they were.
C14_GcRefusalChangesNothing ==
  \A base \in Bases :
     (base # mmap_base \/ in_use_mutex) => gc_done(Self, base) = [ret |-> FALSE, m |-> Self]

\* mmap_gc has called back on a mapped table whose mutex an iterator holds
C14_Witness ==
  Mapped /\ in_use_mutex /\ ref_locked > 0 /\ last.op = "gc_done" /\ last.ret = 0

\* C15: a gc_done that returns true leaves mmap_base null, mmap_fd -1 and
\* the mutex free, and size() and empty() answer as before the call, from
\* the local header, with the map still unmapped.
C15_GcSnapshot ==
  [][(last'.op = "gc_done" /\ last'.ret = 1) =>
       /\ mmap_base' = NULL
       /\ mmap_fd' = -1
       /\ ~in_use_mutex'
       /\ size(Self') = size(Self)
       /\ empty(Self') = empty(Self)]_vars

\* a table that holds entries has been reclaimed
C15_Witness ==
  last.op = "gc_done" /\ last.ret = 1 /\ mmap_fd = -1 /\ mHdr = "local" /\ ~empty(Self)

\* the call left in_use_mutex and ref_locked as the caller had them
LockKept(m) == m.in_use_mutex = in_use_mutex /\ m.ref_locked = ref_locked

\* C16: called by the one thread that uses the map, set, get, has, find_key,
\* erase, reserve and capacity return with in_use_mutex free when ref_locked
\* is 0, and with in_use_mutex still held and ref_locked unchanged when the
\* caller holds iterators; none of them has to wait.
C16_PointOpsKeepLock ==
  /\ CanEnter(Self)
  /\ ref_locked = 0 => ~in_use_mutex
  /\ \A k \in Keys :
       /\ \A v \in Vals : LockKept(set(Self, k, v).m)
       /\ LockKept(get(Self, k).m)
       /\ LockKept(has(Self, k).m)
       /\ LockKept(find_key(Self, k).m)
       /\ LockKept(erase(Self, k).m)
  /\ \A n \in ReserveCounts : LockKept(reserve(Self, n))
  /\ LockKept(capacity(Self).m)

\* a set called with an iterator held has halved infoInc and returned
C16_Witness ==
  last.op = "set" /\ last.grew = "info" /\ ref_locked > 0 /\ in_use_mutex

\* C17: every iterator holds one unit of ref_locked, from whichever of
\* begin, end, find, copy construction or assignment it got its position;
\* once every iterator is destroyed ref_locked is 0 and in_use_mutex is free.
C17_IteratorsBalance ==
  /\ ref_locked = Cardinality({t \in Threads : iters[t].held})
  /\ (\A t \in Threads : ~iters[t].held) => (ref_locked = 0 /\ ~in_use_mutex)

\* C18: every set returns the index of the entry it placed or updated and
\* meets no failed assertion, for each hasher and any number of keys.
C18_SetAlwaysReturns ==
  last.op = "set" => (last.grew # "assert" /\ last.ret >= 0 /\ GetVal(last.key) = last.val)

\* C19: under a hasher that returns one value for every key, the sets of the
\* first 64 keys into a fresh map are absorbed by try_increase_info: no set
\* rehashes or fails an assertion and the table keeps its 1024 slots; with
\* the 64 keys set, each is retrievable with its value and the iteration
\* yields each of them exactly once.
C19_SameHashAbsorbed ==
  (hasher.same /\ last.op = "set" /\ last.key <= 64) =>
    /\ last.grew \in {"no", "info"}
    /\ region.mask + 1 = InitialNumElements
    /\ last.key = 64 =>
         /\ size(Self) = 64
         /\ \A k \in 1 .. 64 : HasKey(k) /\ GetVal(k) = ValOf(k)
         /\ Len(IteratedKeys) = 64
         /\ {IteratedKeys[i] : i \in 1 .. 64} = 1 .. 64

C19_Witness ==
  /\ hasher.same /\ last.op = "set" /\ last.key = 64 /\ live = 1 .. 64
  /\ region.infoInc < InitialInfoInc /\ region.mask + 1 = InitialNumElements
  /\ GetVal(64) = ValOf(64)

\* the keys stored in the occupied slots of table T
KeysIn(T) == {T.kv[i][1] : i \in {j \in DOMAIN T.info : j <= T.mask}}

StoredKeys(M) == KeysIn(reload(M).region)

\* Iter::operator==: only the node pointers are compared
IterEq(a, b) == a.base = b.base /\ a.kv = b.kv

\* erase(k) has returned e: 0, with size() and has and get of every key as
\* they were on M
EraseMissed(M, e) ==
  /\ e.ret = 0
  /\ size(e.m) = size(M)
  /\ \A j \in AllKeys : /\ has(e.m, j).ret = has(M, j).ret
                         /\ get(e.m, j).ret = get(M, j).ret

\* C21: for a key k that no slot holds, find(k) compares equal to end(),
\* has(k) is false, find_key(k) is -1, and erase(k) returns 0 and leaves
\* size() and has and get of every key as they were.
C21_AbsentKeySentinels ==
  alive => \A k \in AllKeys \ StoredKeys(Self) :
     /\ \E f \in {find(Self, k)} : IterEq(f.it, end(f.m).it)
     /\ ~has(Self, k).ret
     /\ find_key(Self, k).ret = -1
     /\ \E e \in {erase(Self, k)} : EraseMissed(Self, e)

\* C22 as claimed: the file exists if and only if an entry has been held
\* since the last clear().
C22_FileIffHeld == alive => (file_exists <=> everHeld)

\* C22 as amended: the file exists if and only if a region is mapped or the
\* table in the file holds at least one entry.  Every operation that loads
\* the table creates it, lookups included; clear() and a reclamation that
\* finds the table empty unlink it.
C22_FileIffMappedOrHolding == file_exists <=> (Mapped \/ disk.numElements > 0)

\* a lookup after clear() has created the file of a map that holds nothing
C22_Witness ==
  alive /\ file_exists /\ ~everHeld /\ Mapped /\ last.op = "has" /\ disk.numElements = 0

\* the table has not been allocated: no mapping, no file, no remembered size
Unallocated == alive /\ mmap_base = NULL /\ ~file_exists /\ mmap_size = 0

\* machine m is as unallocated as the instance is
StillUnallocated(m) == m.mmap_base = NULL /\ ~m.file_exists

\* machine m has the initial table allocated: a mapping of InitialNumElements
\* slots over a file that now exists
Allocated(m) ==
  /\ m.mmap_base # NULL /\ m.file_exists /\ m.mmap_fd >= 0
  /\ m.region.mask + 1 = InitialNumElements
  /\ m.mmap_size = calc_mmap_size(InitialNumElements)

IsPowerOfTwo(n) == \E e \in 0 .. 30 : n = 2 ^ e

\* C24: whenever a region is mapped, mask + 1 is a power of two and at least
\* InitialNumElements (1024).
C24_SlotCountPowerOfTwo ==
  Mapped => (region.mask + 1 >= InitialNumElements /\ IsPowerOfTwo(region.mask + 1))

\* a reload after clear() has mapped an initial table (1024 slots) with the
\* mapping size remembered from the table of 2048 slots that reserve made
C24_Witness ==
  /\ Mapped /\ last.op = "has" /\ ~everHeld
  /\ region.mask + 1 = InitialNumElements
  /\ mmap_size = calc_mmap_size(2 * InitialNumElements)

\* C25: every info value keyToIdx computes is at least 1, and no value
\* above 0xFF has been cast to uint8_t and stored as an info byte by set
\* (doCreate), shiftUp or insert_move.
C25_InfoInRange ==
  Mapped => /\ \A k \in 1 .. KeyLimit : keyToIdx(region, k).info >= 1
            /\ ~region.wide
            /\ \A i \in DOMAIN region.info : region.info[i] \in 1 .. 255

\* infoInc has come down to 2 and a key whose top hash bits are negative has
\* info 1; the last entry of the run holds an info byte of 254 or more
C25_Witness ==
  /\ Mapped /\ last.op = "set" /\ region.infoInc = 2
  /\ keyToIdx(region, last.key).info = 1
  /\ \E i \in DOMAIN region.info : region.info[i] >= 253

\* find(k) has returned f: an iterator at a slot that holds k, not end()
FindAtKey(f, k) ==
  /\ ~IterEq(f.it, end(f.m).it)
  /\ f.it.kv \in DOMAIN f.m.region.kv
  /\ f.m.region.kv[f.it.kv][1] = k

\* C26: every key held in an occupied slot is found: has(k) is true, get(k)
\* returns the value of a slot that holds k, and find(k) returns an iterator
\* at such a slot; findIdx returns -1 only for keys that no slot holds.
C26_StoredKeysFound ==
  alive => \E m \in {reload(Self)} :
     \A i \in {j \in DOMAIN m.region.info : j <= m.region.mask} :
        /\ has(Self, m.region.kv[i][1]).ret
        /\ find_key(Self, m.region.kv[i][1]).ret >= 0
        /\ \E j \in DOMAIN m.region.kv :
              m.region.kv[j][1] = m.region.kv[i][1] /\ get(Self, m.region.kv[i][1]).ret = m.region.kv[j][2]
        /\ FindAtKey(find(Self, m.region.kv[i][1]), m.region.kv[i][1])

\* C27: a set or an erase of key k leaves has(k2) and get(k2) of every other
\* key k2 as they were before the call, whether or not the call shifted
\* entries or grew the table.
C27_OtherKeysUntouched ==
  [][(last'.op \in {"set", "erase"}) =>
        \A k \in (AllKeys \cup WrapKeys) \ {last'.key} :
           /\ has(Self', k).ret = has(Self, k).ret
           /\ get(Self', k).ret = get(Self, k).ret]_vars

\* the info byte of slot i of table T is the info keyToIdx computes for the
\* key of the slot plus infoInc for every slot between its home bucket and i
InfoIsDistance(T, i) ==
  \E p \in {keyToIdx(T, T.kv[i][1])} :
     InfoAt(T, i) = p.info + ((i - p.idx) % (T.mask + 1)) * T.infoInc

\* C28: for every occupied slot i, the displacement encoded in info[i], in
\* units of infoInc above the info that keyToIdx gives the key, equals
\* (i - home bucket of the key) modulo mask + 1.
C28_InfoEncodesDistance ==
  Mapped => \A i \in {j \in DOMAIN region.info : j <= region.mask} : InfoIsDistance(region, i)

\* an erase has shifted entries down in a table whose infoInc has been
\* halved, and slot 0 holds an entry that wrapped round from the last slot
C28_Witness ==
  /\ Mapped /\ last.op = "erase" /\ last.ret = 1
  /\ region.infoInc < InitialInfoInc
  /\ 0 \in DOMAIN region.info
  /\ keyToIdx(region, region.kv[0][1]).idx = region.mask
  /\ InfoIsDistance(region, 0)

\* the occupied slots of table T
Occupied(T) == {j \in DOMAIN T.info : j <= T.mask}

\* C29: each key is held in at most one occupied slot of the mapped table.
C29_NoDuplicateKeys ==
  Mapped => \A i, j \in Occupied(region) : region.kv[i][1] = region.kv[j][1] => i = j

\* C30: for every occupied slot i whose entry is displaced from its home
\* bucket, the slot before it, (i - 1) & mask, is occupied, also for i = 0.
C30_NoHoles ==
  Mapped => \A i \in Occupied(region) :
     keyToIdx(region, region.kv[i][1]).idx # i =>
        ((i - 1) % (region.mask + 1)) \in Occupied(region)

\* C31: a set of a key that is not present, made while maxNumElementsAllowed
\* is 0, calls increase_size (try_increase_info or rehash, or its assertion
\* fails) before it places the key; increase_size leaves
\* maxNumElementsAllowed above numElements, so no entry is placed while it is 0.
C31_OverflowForcesGrowth ==
  [][(Mapped /\ region.maxNumElementsAllowed = 0 /\ last'.op = "set" /\ ~last'.had) =>
        /\ last'.grew \in {"info", "rehash", "assert"}
        /\ region'.numElements > region.numElements => last'.grew \in {"info", "rehash"}
        /\ \E g \in {increase_size(EnterOp(Self))} :
              g.asserted \/ g.region.maxNumElementsAllowed > g.region.numElements]_vars

\* a set of a new key has halved infoInc on a table far below its load
\* limit, i.e. one whose maxNumElementsAllowed the overflow flag had zeroed,
\* and has placed the key
C31_Witness ==
  /\ Mapped /\ last.op = "set" /\ ~last.had /\ last.grew = "info"
  /\ last.size0 < calcMaxNumElementsAllowed(InitialNumElements)
  /\ size(Self) = last.size0 + 1
  /\ region.maxNumElementsAllowed # 0

\* what a lookup gives whose findIdx returned i on table T: <<found, value>>
LookupAt(T, i) == IF i >= 0 THEN <<TRUE, T.kv[i][2]>> ELSE <<FALSE, None>>

\* a lookup of key gives the same on tables S and T
SameLookup(S, T, key) ==
  \E i \in {findIdxT(S, key)}, j \in {findIdxT(T, key)} : LookupAt(S, i) = LookupAt(T, j)

\* the lookups are compared for the keys that were set and this many more
MaxAbsent == 8

\* try_increase_info on table T has returned r
IncreasedInfo(T, r) ==
  IF T.infoInc <= 2 THEN ~r.ok /\ r.T = T
  ELSE /\ r.ok
       /\ r.T.infoInc * 2 = T.infoInc
       /\ r.T.infoHashShift = T.infoHashShift + 1
       /\ r.T.mask = T.mask
       /\ r.T.numElements = T.numElements
       /\ r.T.maxNumElementsAllowed = ((T.mask + 1) * MaxLoadFactor100) \div 100
       /\ \A k \in 1 .. KeyLimit : k <= T.numElements + MaxAbsent => SameLookup(r.T, T, k)
       /\ \A k \in KeysIn(T) : k > T.numElements + MaxAbsent => SameLookup(r.T, T, k)

\* C32: try_increase_info on a table with infoInc > 2 returns true, halves
\* infoInc, adds one to infoHashShift, leaves mask and numElements as they
\* were, sets maxNumElementsAllowed to floor((mask + 1) * 80 / 100), and
\* every key is found with the same value, or not found, as before; with
\* infoInc <= 2 it returns false and changes nothing.
C32_IncreaseInfoKeepsLookups ==
  Mapped => \E r \in {try_increase_info(region)} : IncreasedInfo(region, r)

\* a set has just halved infoInc to 4 under a hasher that returns one value,
\* and a further try_increase_info would bring it to 2
C32_Witness ==
  /\ Mapped /\ hasher.same /\ last.op = "set" /\ last.grew = "info"
  /\ region.infoInc = 4 /\ region.numElements > 1
  /\ \E r \in {try_increase_info(region)} : r.ok /\ r.T.infoInc = 2

\* table N is table T with the value of the one entry of `key` replaced by
\* val: header fields, info bytes and every other slot are the same
UpdatedInPlace(T, N, key, val) ==
  /\ N.mask = T.mask
  /\ N.infoInc = T.infoInc
  /\ N.infoHashShift = T.infoHashShift
  /\ N.numElements = T.numElements
  /\ N.maxNumElementsAllowed = T.maxNumElementsAllowed
  /\ N.info = T.info
  /\ DOMAIN N.kv = DOMAIN T.kv
  /\ \A i \in DOMAIN T.kv : IF T.kv[i][1] = key THEN N.kv[i][1] = key ELSE N.kv[i] = T.kv[i]
  /\ Cardinality({i \in DOMAIN T.kv : N.kv[i] # T.kv[i]}) <= 1

\* C33: a set of a key that is present (has(key) is true before the call)
\* only replaces the value of that one entry: mask, infoInc, infoHashShift,
\* numElements and every info byte stay as they were, whatever
\* maxNumElementsAllowed is.
C33_UpdateInPlace ==
  [][(last'.op = "set" /\ last'.had) =>
        \E m \in {reload(Self)} :
           UpdatedInPlace(m.region, region', last'.key, last'.val)]_vars

\* the machine at the points of rehash where a callback can come in: after
\* the members are reset, after setup_mmap, and after the move loop
RehashPoints(M1, numBuckets) ==
  LET D == rehash_detach(M1)
      S == setup_mmap(D, numBuckets)
  IN  {D, S, rehash_move(S, M1.region, HdrMask(M1) + 1)}

\* gc_done(base) on machine P returns false and leaves P as it was
Refused(P, base) == \E r \in {gc_done(P, base)} : ~r.ret /\ r.m = P

\* C34: while rehash runs with in_use_mutex held, gc_done returns false for
\* the old and for the new base at every point of rehash, and the rehash as a
\* whole (its recycle of the old region included) leaves the instance on the
\* new mapping: mmap_base is the new base and the header pointers point into
\* it.
C34_RehashRefusesGc ==
  \A m \in {reload(EnterOp(Self))} :
     (alive /\ m.in_use_mutex /\ 2 * (HdrMask(m) + 1) <= MaxBuckets) =>
        /\ \A P \in RehashPoints(m, 2 * (HdrMask(m) + 1)) :
              \A base \in Bases : Refused(P, base)
        /\ \E n \in {rehash(m, 2 * (HdrMask(m) + 1))} :
              /\ n.mmap_base \in Bases \ {m.mmap_base}
              /\ n.mHdr = "mmap"
              /\ n.region.mask = 2 * (HdrMask(m) + 1) - 1
              /\ n.region.numElements = m.region.numElements
              /\ n.in_use_mutex

C34_Witness ==
  /\ Mapped /\ last.op = "reserve"
  /\ region.mask + 1 = 2 * InitialNumElements
  /\ region.numElements > 0
  /\ mHdr = "mmap"

\* the key/value pairs in the occupied slots of table T
PairsIn(T) == {T.kv[i] : i \in Occupied(T)}

\* the mask reserve starts from: the one it reads through mMask (the mapped
\* header, or the copy gc_done left in local_mMask) and the one rehash reads
\* after reload() (the header of the file), whichever is larger
SlotMask(M, T) == Max(HdrMask(M), T.mask)

\* reserve(count) took the table from T (machine M) to machine r
Reserved(M, T, r, count) ==
  /\ r.region.mask >= SlotMask(M, T)
  /\ PairsIn(r.region) = PairsIn(T)
  /\ r.region.numElements = T.numElements
  /\ calcMaxNumElementsAllowed(r.region.mask + 1) >= count
  /\ calcMaxNumElementsAllowed(SlotMask(M, T) + 1) >= count =>
        r.region.mask = SlotMask(M, T) /\ r.mmap_base = M.mmap_base

\* C35: reserve(n) never reduces the slot count, never changes the set of
\* key/value pairs, ends with floor((mask + 1) * 80 / 100) >= n, and
\* leaves mask and mmap_base as they were when the table was already that
\* large.
C35_ReserveKeepsTable ==
  (alive /\ CanEnter(Self)) =>
     \A n \in ReserveCounts :
        \E m \in {reload(Self)}, r \in {reserve(Self, n)} :
           ~r.over => Reserved(Self, m.region, r, n)

\* as Reserved, with mmap_base compared only when the instance was mapped:
\* rehash starts with reload(), which maps the file of an instance that is
\* not mapped
ReservedOrMapped(M, T, r, count) ==
  /\ r.region.mask >= SlotMask(M, T)
  /\ PairsIn(r.region) = PairsIn(T)
  /\ r.region.numElements = T.numElements
  /\ calcMaxNumElementsAllowed(r.region.mask + 1) >= count
  /\ r.mmap_base # NULL
  /\ calcMaxNumElementsAllowed(SlotMask(M, T) + 1) >= count =>
        /\ r.region.mask = SlotMask(M, T)
        /\ M.mmap_base # NULL => r.mmap_base = M.mmap_base

\* C35 (amended): reserve(n) never reduces the slot count, never changes the
\* set of key/value pairs, and ends mapped with floor((mask + 1) * 80 / 100)
\* >= n; when the table was already that large, mask is unchanged, and
\* mmap_base is unchanged if the instance was mapped (an instance that was
\* not mapped is mapped by the reload inside rehash).
C35_ReserveKeepsMappedTable ==
  (alive /\ CanEnter(Self)) =>
     \A n \in ReserveCounts :
        \E m \in {reload(Self)}, r \in {reserve(Self, n)} :
           ~r.over => ReservedOrMapped(Self, m.region, r, n)

C35_Witness ==
  /\ last.op = "reserve" /\ Mapped
  /\ region.mask + 1 = 2 * InitialNumElements
  /\ region.numElements > 1
  /\ \E r \in {reserve(Self, 1)} : r.mmap_base = mmap_base /\ r.region = region

\* thread t is between its acquisition of in_use_mutex and its release
InCritical(t) ==
  pc[t].at \in {BodyAt[op] : op \in PointOps} \cup {"exit_test", "exit_store"}

\* C36: while ref_locked stays 0, at most one thread is between the
\* acquisition and the release of in_use_mutex in has, get, set, erase or
\* reserve, the mutex is held while one is, and gc_done reclaims the mapping
\* only in a step taken while no thread is there.
C36_MutualExclusion ==
  /\ [](/\ ref_locked = 0
        /\ Cardinality({t \in Threads : InCritical(t)}) <= 1
        /\ \A t \in Threads : InCritical(t) => in_use_mutex)
  /\ [][(mmap_base # NULL /\ mmap_base' = NULL) =>
          \A t \in Threads : ~InCritical(t)]_vars

\* one thread has run a set and is at its exit while the other spins in erase
C36_Witness ==
  /\ last.op = "set"
  /\ \E t, u \in Threads :
        /\ pc[t].at = "exit_test"
        /\ pc[u].at = SpinAt["erase"]
  /\ in_use_mutex /\ ref_locked = 0 /\ Mapped

\* C37: a call that did not take in_use_mutex on entry returns without
\* storing false to it, and a call that took it on entry stores false before
\* it returns.
C37_ReleasedByTaker ==
  [][\A t \in Threads :
        pc'[t].at = "idle" =>
           /\ pc[t].at = "exit_store" => pc[t].key = 1
           /\ pc[t].at = "exit_test" => pc[t].key = 0]_vars

\* the calls that read or write the info array and the slots
TableOps == {"set", "erase", "has", "reserve"}

\* C38: with one thread, nothing is read or written through a pointer into
\* a reclaimed region: while the instance is not mapped the header pointers
\* point at the local_* members (what size(), empty() and reserve read
\* before any reload), and every call that uses mInfo, mKeyVals, mInfoInc
\* or mInfoHashShift first maps the file again, so it returns with the
\* instance mapped, all pointers into the mapping, and the table of the file
\* in it.
C38_ReloadBeforeAccess ==
  /\ [](mmap_base = NULL => (mHdr = "local" /\ region = ZeroTable(0)))
  /\ [][(alive /\ mmap_base = NULL /\ last'.op \in TableOps) =>
          /\ mmap_base' # NULL
          /\ mHdr' = "mmap" /\ mInc' = "mmap"
          /\ region' = disk'
          /\ last'.op = "has" => \E m \in {reload(Self)} : region' = m.region]_vars

\* gc_done has returned true on a table with entries: the region is gone,
\* the header pointers are on the local copy, mInfoInc still points where the
\* mapping was
C38_Witness ==
  /\ last.op = "gc_done" /\ last.ret = 1
  /\ mmap_base = NULL /\ mHdr = "local" /\ mInc = "mmap"
  /\ size(Self) > 0 /\ disk.numElements = size(Self)

\* the positions of each_pin between its ref_lock and its ref_unlock
PinLocked == {"pin_last", "pin_next", "pin_first", "pin_pid", "pin_unlock", "pin_unlock_return"}

\* C39: each_pin holds exactly one read-lock at every position between its
\* ref_lock and the matching ref_unlock, which is where all its ref() calls
\* are, and none where it calls f1 and after any of its three returns.
C39_EachPinBalanced ==
  /\ pc[MainThread].at \in PinLocked => (ref_locked = 1 /\ in_use_mutex)
  /\ pc[MainThread].at \in {"idle", "pin_f1", "pin_lock"} => (ref_locked = 0 /\ ~in_use_mutex)

\* each_pin is about to call f1 for the second pin of the chain: it has
\* been through ref_lock, the ref() calls of one round of the do-while and
\* ref_unlock
C39_Witness ==
  /\ last.op = "each_pin" /\ pc[MainThread].at = "pin_f1"
  /\ pc[MainThread].key # last.key
  /\ ref_locked = 0 /\ ~in_use_mutex /\ Mapped
  /\ HasKey(pc[MainThread].key)

\* C40: the info keyToIdx computes for a key lies in [infoInc, 2 * infoInc),
\* and the occupied slots whose info byte is 2 * infoInc or more are exactly
\* those that hold an entry away from its home bucket.
C40_HomeInfoBelowTwoInc ==
  Mapped =>
     /\ \A k \in AllKeys :
           \E p \in {keyToIdx(region, k)} :
              region.infoInc <= p.info /\ p.info < 2 * region.infoInc
     /\ \A i \in Occupied(region) :
           InfoAt(region, i) >= 2 * region.infoInc
              <=> keyToIdx(region, region.kv[i][1]).idx # i

====
